---- MODULE Spec2Model ----
(***************************************************************************)
(* Model of grpc-gateway-file: ServeContent (file_download.go) with its    *)
(* range parser, conditional-request evaluation, multi-range producer and  *)
(* the chunk-stream writer it sends through.                               *)
(*                                                                         *)
(* Strings are TLA+ strings; a byte is a one-character string.             *)
(***************************************************************************)
EXTENDS Integers, Sequences, FiniteSets, TLC

(***************************************************************************)
(* Bounds of the model.                                                    *)
(***************************************************************************)
\* largest resource size explored
MaxSize == 3
\* writer.size of downloadServerWriter, scaled down from 1 << 20
defaultBufSize == 16
\* buffer of io.Copy, scaled down from 32 * 1024
CopyBufSize == 8
\* length of the random boundary of multipart.Writer, scaled down from 60
BoundaryLen == 4
\* sub-second resolution of time.Time, scaled down from 10^9 ns per second
TicksPerSecond == 2
\* frames of a client stream, bytes of a frame, bytes of a caller's buffer,
\* size limits and Read calls explored
MaxFrames == 3
MaxFrameLen == 3
MaxDst == 2
MaxLimit == 4
MaxReads == 5
\* Write calls explored on a downloadServerWriter, and the chunks their
\* buffers fill
MaxWrites == 2
MaxChunks == 2
\* Decode calls explored on an httpBodyDecoder
MaxDecodes == 5

(***************************************************************************)
(* Go strings, strconv, textproto                                          *)
(***************************************************************************)
At(s, i) == SubSeq(s, i, i)

Min(a, b) == IF a < b THEN a ELSE b

HasPrefix(s, p) == Len(s) >= Len(p) /\ SubSeq(s, 1, Len(p)) = p

TrimPrefix(s, p) == IF HasPrefix(s, p) THEN SubSeq(s, Len(p) + 1, Len(s)) ELSE s

IsASCIISpace(c) == c \in {" ", "\t", "\n", "\r"}

RECURSIVE TrimLeft(_)
TrimLeft(s) ==
  IF Len(s) > 0 /\ IsASCIISpace(At(s, 1)) THEN TrimLeft(Tail(s)) ELSE s

RECURSIVE TrimRight(_)
TrimRight(s) ==
  IF Len(s) > 0 /\ IsASCIISpace(At(s, Len(s)))
  THEN TrimRight(SubSeq(s, 1, Len(s) - 1)) ELSE s

\* textproto.TrimString
TrimString(s) == TrimRight(TrimLeft(s))

\* strings.Index for a one-byte separator; 0 when absent
RECURSIVE IndexFrom(_, _, _)
IndexFrom(s, c, i) ==
  IF i > Len(s) THEN 0
  ELSE IF At(s, i) = c THEN i
  ELSE IndexFrom(s, c, i + 1)

Index(s, c) == IndexFrom(s, c, 1)

\* strings.Cut
Cut(s, sep) ==
  LET i == Index(s, sep) IN
  IF i = 0 THEN [before |-> s, after |-> "", found |-> FALSE]
  ELSE [before |-> SubSeq(s, 1, i - 1),
        after  |-> SubSeq(s, i + 1, Len(s)),
        found  |-> TRUE]

\* strings.Split for a one-byte separator
RECURSIVE Split(_, _)
Split(s, sep) ==
  LET c == Cut(s, sep) IN
  IF c.found THEN <<c.before>> \o Split(c.after, sep) ELSE <<s>>

Digits == <<"0", "1", "2", "3", "4", "5", "6", "7", "8", "9">>

IsDigit(c) == \E d \in 1..10 : Digits[d] = c

DigitVal(c) == (CHOOSE d \in 1..10 : Digits[d] = c) - 1

RECURSIVE ParseUint(_, _)
ParseUint(s, acc) ==
  IF Len(s) = 0 THEN acc
  ELSE ParseUint(Tail(s), acc * 10 + DigitVal(At(s, 1)))

\* strconv.ParseInt(s, 10, 64): an optional sign, then one or more digits.
\* (The out-of-range error needs 19 digits or more; the headers explored
\* here are shorter.)
ParseInt(s) ==
  LET neg  == Len(s) > 0 /\ At(s, 1) = "-"
      sign == Len(s) > 0 /\ At(s, 1) \in {"-", "+"}
      body == IF sign THEN Tail(s) ELSE s
      wf   == Len(body) > 0 /\ \A i \in 1..Len(body) : IsDigit(At(body, i))
      mag  == IF wf THEN ParseUint(body, 0) ELSE 0
  IN  IF ~wf THEN [ok |-> FALSE, val |-> 0]
      ELSE [ok |-> TRUE, val |-> IF neg THEN -mag ELSE mag]

RECURSIVE FormatUint(_)
FormatUint(n) ==
  IF n < 10 THEN Digits[n + 1]
  ELSE FormatUint(n \div 10) \o Digits[(n % 10) + 1]

\* strconv.FormatInt(n, 10), strconv.Itoa and the %d verb of fmt.Sprintf
FormatInt(n) == IF n < 0 THEN "-" \o FormatUint(-n) ELSE FormatUint(n)

(***************************************************************************)
(* metadata.MD: a map from header name to its (first) value                *)
(***************************************************************************)
NewMD == [k \in {} |-> ""]

Set(md, key, val) ==
  [k \in (DOMAIN md) \cup {key} |-> IF k = key THEN val ELSE md[k]]

Delete(md, key) == [k \in (DOMAIN md) \ {key} |-> md[k]]

pick(md, key) == IF key \in DOMAIN md THEN md[key] ELSE ""

headerRange             == "Range"
headerIfRange           == "If-Range"
headerIfMatch           == "If-Match"
headerIfNoneMatch       == "If-None-Match"
headerIfUnmodifiedSince == "If-Unmodified-Since"
headerIfModifiedSince   == "If-Modified-Since"

headerCode                == "code"
headerAcceptRanges        == "accept-ranges"
headerContentType         == "content-type"
headerContentRange        == "content-range"
headerContentLength       == "content-length"
headerContentEncoding     == "content-encoding"
headerContentDisposition  == "content-disposition"
headerLastModified        == "last-modified"
headerETag                == "etag"
headerCacheControl        == "cache-control"
headerXContentTypeOptions == "x-content-type-options"
headerTransferEncoding    == "transfer-encoding"

StatusOK                           == 200
StatusPartialContent               == 206
StatusNotModified                  == 304
StatusPreconditionFailed           == 412
StatusRequestedRangeNotSatisfiable == 416
StatusInternalServerError          == 500

ErrInvalidRange == "invalid range"
ErrNoOverlap    == "invalid range: failed to overlap"
NoError         == "nil"

(***************************************************************************)
(* parseRange, sumRangesSize, contentRange                                 *)
(***************************************************************************)
\* the body of the loop without the clamping of the end to size - 1
parseRangeSpec_noClamp(ra0, size) ==
  LET ra    == TrimString(ra0)
      c     == Cut(ra, "-")
      start == TrimString(c.before)
      end   == TrimString(c.after)
      none  == [start |-> 0, length |-> 0]
  IN
  IF ra = "" THEN [kind |-> "skip", r |-> none]
  ELSE IF ~c.found THEN [kind |-> "invalid", r |-> none]
  ELSE IF start = "" THEN
    IF end = "" \/ At(end, 1) = "-" THEN [kind |-> "invalid", r |-> none]
    ELSE LET p == ParseInt(end) IN
      IF p.val < 0 \/ ~p.ok THEN [kind |-> "invalid", r |-> none]
      ELSE LET i  == IF p.val > size THEN size ELSE p.val
               st == size - i
           IN [kind |-> "range", r |-> [start |-> st, length |-> size - st]]
  ELSE LET p == ParseInt(start) IN
    IF ~p.ok \/ p.val < 0 THEN [kind |-> "invalid", r |-> none]
    ELSE IF p.val >= size THEN [kind |-> "nooverlap", r |-> none]
    ELSE IF end = "" THEN
      [kind |-> "range", r |-> [start |-> p.val, length |-> size - p.val]]
    ELSE LET q == ParseInt(end) IN
      IF ~q.ok \/ p.val > q.val THEN [kind |-> "invalid", r |-> none]
      ELSE [kind |-> "range",
            r |-> [start |-> p.val, length |-> q.val - p.val + 1]]

\* parseRangeSpec taking a suffix longer than the resource as it is
parseRangeSpec_longSuffix(ra0, size) ==
  LET ra    == TrimString(ra0)
      c     == Cut(ra, "-")
      start == TrimString(c.before)
      end   == TrimString(c.after)
      none  == [start |-> 0, length |-> 0]
  IN
  IF ra = "" THEN [kind |-> "skip", r |-> none]
  ELSE IF ~c.found THEN [kind |-> "invalid", r |-> none]
  ELSE IF start = "" THEN
    IF end = "" \/ At(end, 1) = "-" THEN [kind |-> "invalid", r |-> none]
    ELSE LET p == ParseInt(end) IN
      IF p.val < 0 \/ ~p.ok THEN [kind |-> "invalid", r |-> none]
      ELSE LET i  == p.val
               st == size - i
           IN [kind |-> "range", r |-> [start |-> st, length |-> size - st]]
  ELSE LET p == ParseInt(start) IN
    IF ~p.ok \/ p.val < 0 THEN [kind |-> "invalid", r |-> none]
    ELSE IF p.val >= size THEN [kind |-> "nooverlap", r |-> none]
    ELSE IF end = "" THEN
      [kind |-> "range", r |-> [start |-> p.val, length |-> size - p.val]]
    ELSE LET q == ParseInt(end) IN
      IF ~q.ok \/ p.val > q.val THEN [kind |-> "invalid", r |-> none]
      ELSE LET i == IF q.val >= size THEN size - 1 ELSE q.val
           IN [kind |-> "range",
               r |-> [start |-> p.val, length |-> i - p.val + 1]]

\* one spec of the header: the body of the loop of parseRange.
\* kind is "range" (appended), "skip" (empty spec), "nooverlap" or "invalid".
parseRangeSpec(ra0, size) ==
  LET ra    == TrimString(ra0)
      c     == Cut(ra, "-")
      start == TrimString(c.before)
      end   == TrimString(c.after)
      none  == [start |-> 0, length |-> 0]
  IN
  IF ra = "" THEN [kind |-> "skip", r |-> none]
  ELSE IF ~c.found THEN [kind |-> "invalid", r |-> none]
  ELSE IF start = "" THEN
    IF end = "" \/ At(end, 1) = "-" THEN [kind |-> "invalid", r |-> none]
    ELSE LET p == ParseInt(end) IN
      IF p.val < 0 \/ ~p.ok THEN [kind |-> "invalid", r |-> none]
      ELSE LET i  == IF p.val > size THEN size ELSE p.val
               st == size - i
           IN [kind |-> "range", r |-> [start |-> st, length |-> size - st]]
  ELSE LET p == ParseInt(start) IN
    IF ~p.ok \/ p.val < 0 THEN [kind |-> "invalid", r |-> none]
    ELSE IF p.val >= size THEN [kind |-> "nooverlap", r |-> none]
    ELSE IF end = "" THEN
      [kind |-> "range", r |-> [start |-> p.val, length |-> size - p.val]]
    ELSE LET q == ParseInt(end) IN
      IF ~q.ok \/ p.val > q.val THEN [kind |-> "invalid", r |-> none]
      ELSE LET i == IF q.val >= size THEN size - 1 ELSE q.val
           IN [kind |-> "range",
               r |-> [start |-> p.val, length |-> i - p.val + 1]]

\* the loop failing with ErrNoOverlap as soon as one spec was dropped
RECURSIVE parseRangeLoop_anyDropped(_, _, _, _)
parseRangeLoop_anyDropped(splitted, size, ranges, noOverlap) ==
  IF Len(splitted) = 0 THEN
    IF noOverlap
    THEN [ranges |-> <<>>, err |-> ErrNoOverlap]
    ELSE [ranges |-> ranges, err |-> NoError]
  ELSE LET sp == parseRangeSpec(Head(splitted), size) IN
    CASE sp.kind = "invalid"   -> [ranges |-> <<>>, err |-> ErrInvalidRange]
      [] sp.kind = "skip"      ->
           parseRangeLoop_anyDropped(Tail(splitted), size, ranges, noOverlap)
      [] sp.kind = "nooverlap" ->
           parseRangeLoop_anyDropped(Tail(splitted), size, ranges, TRUE)
      [] sp.kind = "range"     ->
           parseRangeLoop_anyDropped(Tail(splitted), size,
                                     Append(ranges, sp.r), noOverlap)

\* the loop passing over a spec that does not parse
RECURSIVE parseRangeLoop_skipInvalid(_, _, _, _)
parseRangeLoop_skipInvalid(splitted, size, ranges, noOverlap) ==
  IF Len(splitted) = 0 THEN
    IF noOverlap /\ Len(ranges) = 0
    THEN [ranges |-> <<>>, err |-> ErrNoOverlap]
    ELSE [ranges |-> ranges, err |-> NoError]
  ELSE LET sp == parseRangeSpec(Head(splitted), size) IN
    CASE sp.kind \in {"invalid", "skip"} ->
           parseRangeLoop_skipInvalid(Tail(splitted), size, ranges, noOverlap)
      [] sp.kind = "nooverlap" ->
           parseRangeLoop_skipInvalid(Tail(splitted), size, ranges, TRUE)
      [] sp.kind = "range"     ->
           parseRangeLoop_skipInvalid(Tail(splitted), size,
                                      Append(ranges, sp.r), noOverlap)

\* the loop over the comma-separated specs; the first invalid spec returns
RECURSIVE parseRangeLoop(_, _, _, _)
parseRangeLoop(splitted, size, ranges, noOverlap) ==
  IF Len(splitted) = 0 THEN
    IF noOverlap /\ Len(ranges) = 0
    THEN [ranges |-> <<>>, err |-> ErrNoOverlap]
    ELSE [ranges |-> ranges, err |-> NoError]
  ELSE LET sp == parseRangeSpec(Head(splitted), size) IN
    CASE sp.kind = "invalid"   -> [ranges |-> <<>>, err |-> ErrInvalidRange]
      [] sp.kind = "skip"      ->
           parseRangeLoop(Tail(splitted), size, ranges, noOverlap)
      [] sp.kind = "nooverlap" ->
           parseRangeLoop(Tail(splitted), size, ranges, TRUE)
      [] sp.kind = "range"     ->
           parseRangeLoop(Tail(splitted), size, Append(ranges, sp.r), noOverlap)

parseRange(s, size) ==
  IF s = "" THEN [ranges |-> <<>>, err |-> NoError]
  ELSE IF ~HasPrefix(s, "bytes=") THEN [ranges |-> <<>>, err |-> ErrInvalidRange]
  ELSE parseRangeLoop(Split(SubSeq(s, 7, Len(s)), ","), size, <<>>, FALSE)

RECURSIVE sumRangesSize(_)
sumRangesSize(ranges) ==
  IF Len(ranges) = 0 THEN 0
  ELSE Head(ranges).length + sumRangesSize(Tail(ranges))

\* contentRange with the end one past the last byte
contentRange_endExclusive(r, size) ==
  "bytes " \o FormatInt(r.start) \o "-" \o FormatInt(r.start + r.length)
           \o "/" \o FormatInt(size)

contentRange(r, size) ==
  "bytes " \o FormatInt(r.start) \o "-" \o FormatInt(r.start + r.length - 1)
           \o "/" \o FormatInt(size)

(***************************************************************************)
(* time.Time, http.ParseTime                                               *)
(*                                                                         *)
(* A time is [zero, ticks]: zero marks the zero value of time.Time, ticks  *)
(* counts sub-second ticks since the Unix epoch.  The text of an HTTP date *)
(* is abbreviated to "T<seconds> GMT"; time.RFC1123 of a UTC time prints   *)
(* the zone as "UTC".                                                      *)
(***************************************************************************)
zeroTime == [zero |-> TRUE, ticks |-> 0]

unixEpochTime == [zero |-> FALSE, ticks |-> 0]

Time(ticks) == [zero |-> FALSE, ticks |-> ticks]

IsZero(t) == t.zero

Equal(t, u) == t = u

\* the zero time lies before the epoch, where no time of the model lies
Unix(t) == IF t.zero THEN 0 - 1 ELSE t.ticks \div TicksPerSecond

\* t.Truncate(time.Second)
Truncate(t) == [t EXCEPT !.ticks = t.ticks - (t.ticks % TicksPerSecond)]

Compare(t, u) ==
  IF t.ticks < u.ticks THEN -1 ELSE IF t.ticks > u.ticks THEN 1 ELSE 0

\* t.UTC().Format(time.RFC1123)
FormatRFC1123(t) == "T" \o FormatInt(Unix(t)) \o " UTC"

\* http.ParseTime: accepts the GMT forms only
ParseTime(s) ==
  LET n    == Len(s)
      body == SubSeq(s, 2, n - 4)
      p    == ParseInt(body)
      wf   == /\ n >= 6
              /\ At(s, 1) = "T"
              /\ SubSeq(s, n - 3, n) = " GMT"
              /\ \A i \in 1..Len(body) : IsDigit(At(body, i))
              /\ p.ok
  IN IF wf THEN [ok |-> TRUE, t |-> Time(p.val * TicksPerSecond)]
     ELSE [ok |-> FALSE, t |-> zeroTime]

(***************************************************************************)
(* ETags and the precondition checks                                       *)
(***************************************************************************)
\* c == 0x21 || c >= 0x23 && c <= 0x7E || c >= 0x80, over the characters used
ETagChar(c) == ~IsASCIISpace(c) /\ c # "\""

RECURSIVE scanETagFrom(_, _)
scanETagFrom(s, i) ==
  IF i > Len(s) THEN [etag |-> "", remain |-> ""]
  ELSE IF ETagChar(At(s, i)) THEN scanETagFrom(s, i + 1)
  ELSE IF At(s, i) = "\""
       THEN [etag |-> SubSeq(s, 1, i), remain |-> SubSeq(s, i + 1, Len(s))]
  ELSE [etag |-> "", remain |-> ""]

scanETag(s0) ==
  LET s     == TrimString(s0)
      start == IF HasPrefix(s, "W/") THEN 2 ELSE 0
  IN IF Len(s) - start < 2 \/ At(s, start + 1) # "\""
     THEN [etag |-> "", remain |-> ""]
     ELSE scanETagFrom(s, start + 2)

eTagStrongMatch(a, b) == a = b /\ a # "" /\ At(a, 1) = "\""

eTagWeakMatch(a, b) == TrimPrefix(a, "W/") = TrimPrefix(b, "W/")

condNone  == 0
condTrue  == 1
condFalse == 2

\* checkIfMatch giving up at the first ETag that does not match
checkIfMatchLoop_firstOnly(im0, etag) ==
  LET im == TrimString(im0) IN
  IF Len(im) = 0 THEN condFalse
  ELSE IF At(im, 1) = "*" THEN condTrue
  ELSE IF eTagStrongMatch(scanETag(im).etag, etag) THEN condTrue
  ELSE condFalse

RECURSIVE checkIfMatchLoop(_, _)
checkIfMatchLoop(im0, etag) ==
  LET im == TrimString(im0) IN
  IF Len(im) = 0 THEN condFalse
  ELSE IF At(im, 1) = "," THEN checkIfMatchLoop(Tail(im), etag)
  ELSE IF At(im, 1) = "*" THEN condTrue
  ELSE LET sc == scanETag(im) IN
       IF sc.etag = "" THEN condFalse
       ELSE IF eTagStrongMatch(sc.etag, etag) THEN condTrue
       ELSE checkIfMatchLoop(sc.remain, etag)

checkIfMatch(outgoing, incoming) ==
  LET im == pick(incoming, headerIfMatch) IN
  IF im = "" THEN condNone
  ELSE checkIfMatchLoop(im, pick(outgoing, headerETag))

\* isZeroTime without the comparison with the Unix epoch
isZeroTime_zeroOnly(t) == IsZero(t)

isZeroTime(t) == IsZero(t) \/ Equal(t, unixEpochTime)

checkIfUnmodifiedSince(incoming, modtime) ==
  LET ius == pick(incoming, headerIfUnmodifiedSince)
      p   == ParseTime(ius)
  IN IF ius = "" \/ isZeroTime(modtime) THEN condNone
     ELSE IF ~p.ok THEN condNone
     ELSE IF Compare(Truncate(modtime), p.t) <= 0 THEN condTrue
     ELSE condFalse

\* checkIfNoneMatch comparing with eTagStrongMatch for eTagWeakMatch
RECURSIVE checkIfNoneMatchLoop_strong(_, _)
checkIfNoneMatchLoop_strong(buf0, etag) ==
  LET buf == TrimString(buf0) IN
  IF Len(buf) = 0 THEN condTrue
  ELSE IF At(buf, 1) = "," THEN checkIfNoneMatchLoop_strong(Tail(buf), etag)
  ELSE IF At(buf, 1) = "*" THEN condFalse
  ELSE LET sc == scanETag(buf) IN
       IF sc.etag = "" THEN condTrue
       ELSE IF eTagStrongMatch(sc.etag, etag) THEN condFalse
       ELSE checkIfNoneMatchLoop_strong(sc.remain, etag)

RECURSIVE checkIfNoneMatchLoop(_, _)
checkIfNoneMatchLoop(buf0, etag) ==
  LET buf == TrimString(buf0) IN
  IF Len(buf) = 0 THEN condTrue
  ELSE IF At(buf, 1) = "," THEN checkIfNoneMatchLoop(Tail(buf), etag)
  ELSE IF At(buf, 1) = "*" THEN condFalse
  ELSE LET sc == scanETag(buf) IN
       IF sc.etag = "" THEN condTrue
       ELSE IF eTagWeakMatch(sc.etag, etag) THEN condFalse
       ELSE checkIfNoneMatchLoop(sc.remain, etag)

checkIfNoneMatch(outgoing, incoming) ==
  LET inm == pick(incoming, headerIfNoneMatch) IN
  IF inm = "" THEN condNone
  ELSE checkIfNoneMatchLoop(inm, pick(outgoing, headerETag))

\* checkIfModifiedSince with "ret < 0" for "ret <= 0"
checkIfModifiedSince_strict(incoming, modtime) ==
  LET ims == pick(incoming, headerIfModifiedSince)
      p   == ParseTime(ims)
  IN IF ims = "" \/ isZeroTime(modtime) THEN condNone
     ELSE IF ~p.ok THEN condNone
     ELSE IF Compare(Truncate(modtime), p.t) < 0 THEN condFalse
     ELSE condTrue

checkIfModifiedSince(incoming, modtime) ==
  LET ims == pick(incoming, headerIfModifiedSince)
      p   == ParseTime(ims)
  IN IF ims = "" \/ isZeroTime(modtime) THEN condNone
     ELSE IF ~p.ok THEN condNone
     ELSE IF Compare(Truncate(modtime), p.t) <= 0 THEN condFalse
     ELSE condTrue

\* checkIfRange accepting a date that is not before modtime
checkIfRange_notBefore(outgoing, incoming, modtime) ==
  LET ir == pick(incoming, headerIfRange)
      sc == scanETag(ir)
      p  == ParseTime(ir)
  IN IF ir = "" THEN condNone
     ELSE IF sc.etag # "" THEN
       IF eTagStrongMatch(sc.etag, pick(outgoing, headerETag))
       THEN condTrue ELSE condFalse
     ELSE IF IsZero(modtime) THEN condFalse
     ELSE IF ~p.ok THEN condFalse
     ELSE IF Unix(p.t) >= Unix(modtime) THEN condTrue
     ELSE condFalse

checkIfRange(outgoing, incoming, modtime) ==
  LET ir == pick(incoming, headerIfRange)
      sc == scanETag(ir)
      p  == ParseTime(ir)
  IN IF ir = "" THEN condNone
     ELSE IF sc.etag # "" THEN
       IF eTagStrongMatch(sc.etag, pick(outgoing, headerETag))
       THEN condTrue ELSE condFalse
     ELSE IF IsZero(modtime) THEN condFalse
     ELSE IF ~p.ok THEN condFalse
     ELSE IF Unix(p.t) = Unix(modtime) THEN condTrue
     ELSE condFalse

setLastModified(outgoing, modTime) ==
  IF ~isZeroTime(modTime)
  THEN Set(outgoing, headerLastModified, FormatRFC1123(modTime))
  ELSE outgoing

writeNotModified(outgoing) ==
  LET o1 == Delete(Delete(Delete(outgoing, headerContentType),
                          headerContentLength), headerContentEncoding)
      o2 == IF pick(o1, headerETag) # "" THEN Delete(o1, headerLastModified)
            ELSE o1
  IN Set(o2, headerCode, FormatInt(StatusNotModified))

\* checkPreconditions consulting If-Unmodified-Since whatever If-Match says
checkPreconditions_alsoUnmodifiedSince(outgoing, incoming, modTime) ==
  LET im == checkIfMatch(outgoing, incoming)
      us == checkIfUnmodifiedSince(incoming, modTime)
      nm == checkIfNoneMatch(outgoing, incoming)
      rh == pick(incoming, headerRange)
  IN
  IF im = condFalse \/ us = condFalse THEN
    [done |-> TRUE, rangeHeader |-> "",
     outgoing |-> Set(outgoing, headerCode, FormatInt(StatusPreconditionFailed))]
  ELSE IF nm = condFalse THEN
    [done |-> TRUE, rangeHeader |-> "", outgoing |-> writeNotModified(outgoing)]
  ELSE IF nm = condNone /\ checkIfModifiedSince(incoming, modTime) = condFalse THEN
    [done |-> TRUE, rangeHeader |-> "", outgoing |-> writeNotModified(outgoing)]
  ELSE
    [done |-> FALSE,
     rangeHeader |-> IF rh # "" /\ checkIfRange(outgoing, incoming, modTime) = condFalse
                     THEN "" ELSE rh,
     outgoing |-> outgoing]

\* returns done, rangeHeader and the outgoing metadata as the call leaves it
checkPreconditions(outgoing, incoming, modTime) ==
  LET im == checkIfMatch(outgoing, incoming)
      ch == IF im = condNone THEN checkIfUnmodifiedSince(incoming, modTime)
            ELSE im
      nm == checkIfNoneMatch(outgoing, incoming)
      rh == pick(incoming, headerRange)
  IN
  IF ch = condFalse THEN
    [done |-> TRUE, rangeHeader |-> "",
     outgoing |-> Set(outgoing, headerCode, FormatInt(StatusPreconditionFailed))]
  ELSE IF nm = condFalse THEN
    [done |-> TRUE, rangeHeader |-> "", outgoing |-> writeNotModified(outgoing)]
  ELSE IF nm = condNone /\ checkIfModifiedSince(incoming, modTime) = condFalse THEN
    [done |-> TRUE, rangeHeader |-> "", outgoing |-> writeNotModified(outgoing)]
  ELSE
    [done |-> FALSE,
     rangeHeader |-> IF rh # "" /\ checkIfRange(outgoing, incoming, modTime) = condFalse
                     THEN "" ELSE rh,
     outgoing |-> outgoing]

(***************************************************************************)
(* mime/multipart.Writer as ServeContent uses it, and rangesMIMESize       *)
(***************************************************************************)
mimeHeader(r, contentType, size) ==
  [ContentRange |-> contentRange(r, size), ContentType |-> contentType]

\* CreatePart writing the header lines in the order Content-Type,
\* Content-Range
createPartBytes_typeFirst(boundary, first, h) ==
  (IF first THEN "--" ELSE "\r\n--") \o boundary \o "\r\n"
    \o "Content-Type: " \o h.ContentType \o "\r\n"
    \o "Content-Range: " \o h.ContentRange \o "\r\n"
    \o "\r\n"

\* the bytes that CreatePart writes in one Write: the boundary line (preceded
\* by CRLF after the first part), the header lines in key order, a blank line
createPartBytes(boundary, first, h) ==
  (IF first THEN "--" ELSE "\r\n--") \o boundary \o "\r\n"
    \o "Content-Range: " \o h.ContentRange \o "\r\n"
    \o "Content-Type: " \o h.ContentType \o "\r\n"
    \o "\r\n"

\* the bytes that Writer.Close writes
closeBytes(boundary) == "\r\n--" \o boundary \o "--\r\n"

\* the bytes the countingWriter of rangesMIMESize has seen after the parts
\* from index i on and the Close
RECURSIVE countingWriter(_, _, _, _, _)
countingWriter(ranges, i, contentType, contentSize, boundary) ==
  IF i > Len(ranges) THEN Len(closeBytes(boundary))
  ELSE Len(createPartBytes(boundary, i = 1,
                           mimeHeader(ranges[i], contentType, contentSize)))
       + countingWriter(ranges, i + 1, contentType, contentSize, boundary)

\* rangesMIMESize without the "encSize += ra.length" of its loop
rangesMIMESize_noLength(ranges, contentType, contentSize, boundary) ==
  countingWriter(ranges, 1, contentType, contentSize, boundary)

\* boundary is the random boundary of the multipart.Writer it creates
rangesMIMESize(ranges, contentType, contentSize, boundary) ==
  sumRangesSize(ranges)
    + countingWriter(ranges, 1, contentType, contentSize, boundary)

(***************************************************************************)
(* content type of ServeContent                                            *)
(***************************************************************************)
RECURSIVE LastIndex(_, _, _)
LastIndex(s, c, i) ==
  IF i < 1 THEN 0 ELSE IF At(s, i) = c THEN i ELSE LastIndex(s, c, i - 1)

\* filepath.Ext of a name without directory
Ext(name) ==
  LET i == LastIndex(name, ".", Len(name)) IN
  IF i = 0 THEN "" ELSE SubSeq(name, i, Len(name))

\* mime.TypeByExtension, for the extensions used here
TypeByExtension(ext) ==
  IF ext = ".txt" THEN "text/plain; charset=utf-8" ELSE ""

\* http.DetectContentType: the resources here are (possibly empty) text
DetectContentType(data) == "text/plain; charset=utf-8"

sniffLen == 512

\* serveError leaving last-modified in place
serveErrorHeaders_keepLastModified(outgoing, code) ==
  LET o1 == Delete(Delete(Delete(Delete(outgoing,
              headerCacheControl), headerContentEncoding), headerETag),
              headerContentLength)
      o2 == Set(o1, headerContentType, "text/plain; charset=utf-8")
      o3 == Set(o2, headerXContentTypeOptions, "nosniff")
  IN Set(o3, headerCode, FormatInt(code))

\* the header edits of serveError, before its SendHeader
serveErrorHeaders(outgoing, code) ==
  LET o1 == Delete(Delete(Delete(Delete(Delete(outgoing,
              headerCacheControl), headerContentEncoding), headerETag),
              headerLastModified), headerContentLength)
      o2 == Set(o1, headerContentType, "text/plain; charset=utf-8")
      o3 == Set(o2, headerXContentTypeOptions, "nosniff")
  IN Set(o3, headerCode, FormatInt(code))

(***************************************************************************)
(* Requests explored                                                       *)
(***************************************************************************)
\* the bytes of a resource of the given size: all distinct
Source(size) == SubSeq("abcdefghijklmnopqrstuvwxyz", 1, size)

Sizes == 0..MaxSize

Offsets == 0..(MaxSize + 1)

SingleRangeHeaders ==
  {"bytes=" \o FormatInt(a) \o "-" \o FormatInt(b) : a \in Offsets, b \in Offsets}
    \cup {"bytes=" \o FormatInt(a) \o "-" : a \in Offsets}
    \cup {"bytes=-" \o FormatInt(n) : n \in Offsets}

MultiRangeHeaders ==
  {"bytes=0-0,2-2", "bytes=0-0, -1", "bytes=1-,0-0", "bytes=0-1,1-2",
   "bytes=-1,-2", "bytes=7-8,9-", "bytes=9-9,0-0", "bytes=0-0,1-1,2-2"}

InvalidRangeHeaders ==
  {"bytes=1", "items=0-1", "bytes=0-x", "bytes=--1", "bytes=0-0,x"}

RangeHeaders ==
  {""} \cup SingleRangeHeaders \cup MultiRangeHeaders \cup InvalidRangeHeaders

ETagLists == {"", "*", "\"a\"", "W/\"a\"", "\"b\", *", "x"}

DateHeaders == {"", "T0 GMT", "T1 GMT", "bad"}

IfRangeHeaders == {"", "\"a\"", "W/\"a\"", "T0 GMT", "T1 GMT", "bad"}

ModTimes == {zeroTime} \cup {Time(t) : t \in 0..(2 * TicksPerSecond)}

ContentTypes == {"", "a/b"}

Names == {"", "f", "f.txt"}

\* 30 random bytes in hexadecimal, here BoundaryLen characters
RECURSIVE Repeat(_, _)
Repeat(c, n) == IF n = 0 THEN "" ELSE c \o Repeat(c, n - 1)

Boundaries == {Repeat(c, BoundaryLen) : c \in {"0", "f"}}

Incoming(range, ifRange, ifMatch, ifNoneMatch, ius, ims) ==
  LET put(md, k, v) == IF v = "" THEN md ELSE Set(md, k, v) IN
  put(put(put(put(put(put(NewMD, headerRange, range), headerIfRange, ifRange),
      headerIfMatch, ifMatch), headerIfNoneMatch, ifNoneMatch),
      headerIfUnmodifiedSince, ius), headerIfModifiedSince, ims)

(***************************************************************************)
(* State                                                                   *)
(***************************************************************************)
VARIABLES
  incoming,     \* metadata of the request
  contentType,  \* parameter and local variable of ServeContent
  name,         \* parameter
  modTime,      \* parameter
  size,         \* parameter; the content holds Source(size)
  pc,           \* position of ServeContent
  outgoing,     \* response metadata under construction
  rangeReq,     \* range header returned by checkPreconditions
  ranges,       \* resolved ranges
  sendSize,     \* sendSize
  sendFrom,     \* sendContent: "content" or "pipe"
  remaining,    \* bytes io.CopyN has still to read
  wbuf,         \* rest of the data of the Write call in progress
  errText,      \* text serveError sends
  ret,          \* "running", or the error ServeContent returned
  pos,          \* offset of the content (io.ReadSeeker)
  stream,       \* what SendHeader and Send have put on the stream, in order
  headerCalls,  \* number of calls of SendHeader
  ppc,          \* position of the goroutine of the multi-range case
  pidx,         \* index of the range it is at
  prem,         \* bytes its io.CopyN has still to read
  pwbuf,        \* rest of the data of its Write call in progress
  boundary,     \* boundary of mWriter
  pipeW,        \* write side of the pipe: "none", "open", "EOF" or an error
  pipeRClosed,  \* pReader.Close() has run
  failed,       \* some call on the stream or the content has failed
  calls,        \* the operations ServeContent has invoked so far
  parsePc,      \* position of a caller of parseRange on its own
  parseS,       \* its argument s
  parseSize,    \* its argument size
  parseRet,     \* what its first call returned
  parseRet2,    \* what its second call returned
  upPc,         \* position of the user of an uploadServerReader
  upFrames,     \* the payloads the client sends, in order
  upEnd,        \* the error Recv returns after the last of them
  upRecvd,      \* number of frames Recv has delivered
  rdBuf,        \* reader.buf
  rdSizeCurrent,\* reader.sizeCurrent
  rdSizeLimit,  \* reader.sizeLimit
  upReads,      \* number of Read calls so far
  upOut,        \* the bytes the Read calls have returned, in order
  upLast,       \* the last Read call: its buffer, what it found and returned
  wrPc,         \* position of the user of a downloadServerWriter
  wrStream,     \* the payloads Send has put on its stream, in order
  wrHist,       \* its Write calls so far: data, results and frames sent
  decPc,        \* position of the user of an httpBodyDecoder
  decBody,      \* the bytes of the request body
  decEnd,       \* the error the body returns after them
  decPos,       \* bytes read from the body so far
  decEof,       \* decoder.eof
  decOut,       \* the payloads of the Decode calls that succeeded, in order
  decLast,      \* the last Decode call: what it found and returned
  decOther,     \* some Decode call was given another message type
  decCalls      \* number of Decode calls so far

inputVars == <<incoming, name, modTime, size>>
mainVars  == <<contentType, pc, outgoing, rangeReq, ranges, sendSize, sendFrom,
               remaining, wbuf, errText, ret>>
prodVars  == <<ppc, pidx, prem, pwbuf, boundary>>
pipeVars  == <<pipeW, pipeRClosed>>
parseVars == <<parsePc, parseS, parseSize, parseRet, parseRet2>>
uploadVars == <<upPc, upFrames, upEnd, upRecvd, rdBuf, rdSizeCurrent,
                rdSizeLimit, upReads, upOut, upLast>>
writeVars == <<wrPc, wrStream, wrHist>>
decodeVars == <<decPc, decBody, decEnd, decPos, decEof, decOut, decLast,
                decOther, decCalls>>
vars == <<inputVars, mainVars, prodVars, pipeVars, pos, stream, headerCalls,
          failed, calls, parseVars, uploadVars, writeVars, decodeVars>>

Running == "running"
EOF   == "EOF"

ErrSend       == "send failed"
ErrSendHeader == "send header failed"
ErrSeek       == "seek failed"
ErrRead       == "read failed"

HeaderEvent(md) ==
  [kind |-> "header", md |-> md, data |-> "", by |-> "main", late |-> FALSE]

DataEvent(data, by, late) ==
  [kind |-> "data", md |-> NewMD, data |-> data, by |-> by, late |-> late]

InitLocals ==
  /\ outgoing = NewMD
  /\ rangeReq = ""
  /\ ranges = <<>>
  /\ sendSize = 0
  /\ sendFrom = "content"
  /\ remaining = 0
  /\ wbuf = ""
  /\ errText = ""
  /\ ret = Running
  /\ pos = 0
  /\ stream = <<>>
  /\ headerCalls = 0
  /\ ppc = "idle"
  /\ pidx = 0
  /\ prem = 0
  /\ pwbuf = ""
  /\ boundary = ""
  /\ pipeW = "none"
  /\ pipeRClosed = FALSE
  /\ failed = FALSE
  /\ calls = {}

\* requests with conditional headers
InitConditional ==
  /\ \E r \in {"", "bytes=0-0"}, im \in ETagLists, inm \in ETagLists,
        ius \in DateHeaders, ims \in DateHeaders :
       incoming = Incoming(r, "", im, inm, ius, ims)
  /\ modTime \in ModTimes
  /\ size = Min(2, MaxSize)
  /\ contentType = "a/b"
  /\ name = ""

\* requests with a Range header and no conditional header
InitRange ==
  /\ \E r \in RangeHeaders : incoming = Incoming(r, "", "", "", "", "")
  /\ modTime \in {zeroTime, Time(TicksPerSecond + 1)}
  /\ size \in Sizes
  /\ contentType \in ContentTypes
  /\ name \in Names

\* requests with Range and If-Range
InitIfRange ==
  /\ \E r \in {"", "bytes=0-0", "bytes=0-0,1-1"}, ir \in IfRangeHeaders :
       incoming = Incoming(r, ir, "", "", "", "")
  /\ modTime \in ModTimes
  /\ size = Min(2, MaxSize)
  /\ contentType = "a/b"
  /\ name = ""

\* no caller of parseRange on its own
InitNoParse ==
  /\ parsePc = "off"
  /\ parseS = ""
  /\ parseSize = 0
  /\ parseRet = [ranges |-> <<>>, err |-> NoError]
  /\ parseRet2 = [ranges |-> <<>>, err |-> NoError]

\* a Read call: dst is len(dst), leftover len(reader.buf) and current
\* reader.sizeCurrent on entry, recv whether Recv was called, n and err the
\* results, data the bytes copied to dst, after whether an earlier Read
\* call had returned an error
ReadCall(dst, leftover, current, recv, n, err, data, after) ==
  [dst |-> dst, leftover |-> leftover, current |-> current, recv |-> recv,
   n |-> n, err |-> err, data |-> data, after |-> after]

\* no uploadServerReader in use
InitNoUpload ==
  /\ upPc = "off"
  /\ upFrames = <<>>
  /\ upEnd = EOF
  /\ upRecvd = 0
  /\ rdBuf = ""
  /\ rdSizeCurrent = 0
  /\ rdSizeLimit = 0
  /\ upReads = 0
  /\ upOut = ""
  /\ upLast = ReadCall(0, 0, 0, FALSE, 0, NoError, "", FALSE)

\* a Decode call: eof is decoder.eof on entry, read whether the body was
\* read, n the bytes read, err the result, data the payload the message holds
\* on return
DecodeCall(eof, read, n, err, data) ==
  [eof |-> eof, read |-> read, n |-> n, err |-> err, data |-> data]

\* no httpBodyDecoder in use
InitNoDecode ==
  /\ decPc = "off"
  /\ decBody = ""
  /\ decEnd = EOF
  /\ decPos = 0
  /\ decEof = FALSE
  /\ decOut = <<>>
  /\ decLast = DecodeCall(FALSE, FALSE, 0, NoError, "")
  /\ decOther = FALSE
  /\ decCalls = 0

\* no downloadServerWriter in use on its own
InitNoWrite ==
  /\ wrPc = "off"
  /\ wrStream = <<>>
  /\ wrHist = <<>>

Init ==
  /\ pc = "start"
  /\ InitLocals
  /\ InitNoParse
  /\ InitNoUpload
  /\ InitNoWrite
  /\ InitNoDecode
  /\ (InitConditional \/ InitRange \/ InitIfRange)

(***************************************************************************)
(* ServeContent: the calling goroutine                                     *)
(***************************************************************************)
\* return err, running the deferred pReader.Close() of the multi-range case
Return(err) ==
  /\ pc' = "returned"
  /\ ret' = err
  /\ pipeRClosed' = (pipeW # "none")
  /\ pipeW' = pipeW

\* ServeContent going on after checkPreconditions whatever done says
Preconditions_ignoreDone ==
  /\ pc = "start"
  /\ LET cp == checkPreconditions(setLastModified(outgoing, modTime),
                                  incoming, modTime)
     IN /\ outgoing' = cp.outgoing
        /\ rangeReq' = cp.rangeHeader
        /\ pc' = "type"
  /\ UNCHANGED <<inputVars, parseVars, uploadVars, writeVars, decodeVars, contentType, ranges, sendSize, sendFrom, remaining,
                 wbuf, errText, ret, prodVars, pipeVars, pos, stream,
                 headerCalls, failed, calls>>

\* setLastModified and checkPreconditions (lines 134-141)
Preconditions ==
  /\ pc = "start"
  /\ LET cp == checkPreconditions(setLastModified(outgoing, modTime),
                                  incoming, modTime)
     IN /\ outgoing' = cp.outgoing
        /\ rangeReq' = cp.rangeHeader
        /\ pc' = IF cp.done THEN "serveDone" ELSE "type"
  /\ UNCHANGED <<inputVars, parseVars, uploadVars, writeVars, decodeVars, contentType, ranges, sendSize, sendFrom, remaining,
                 wbuf, errText, ret, prodVars, pipeVars, pos, stream,
                 headerCalls, failed, calls>>

\* serveDone (lines 284-286)
ServeDone ==
  /\ pc = "serveDone"
  /\ headerCalls' = headerCalls + 1
  /\ calls' = calls \cup {"SendHeader"}
  /\ \E ok \in BOOLEAN :
       IF ok
       THEN /\ stream' = Append(stream, HeaderEvent(outgoing))
            /\ Return(NoError)
            /\ UNCHANGED failed
       ELSE /\ Return(ErrSendHeader)
            /\ failed' = TRUE
            /\ UNCHANGED stream
  /\ UNCHANGED <<inputVars, parseVars, uploadVars, writeVars, decodeVars, contentType, outgoing, rangeReq, ranges, sendSize,
                 sendFrom, remaining, wbuf, errText, prodVars, pos>>

\* the content type (lines 143-156); the sniffing reads and seeks the content
ContentType ==
  /\ pc = "type"
  /\ IF contentType # ""
     THEN /\ pc' = "range"
          /\ UNCHANGED <<contentType, outgoing, errText, pos, failed, calls>>
     ELSE LET byExt == TypeByExtension(Ext(name)) IN
          IF byExt # ""
          THEN /\ contentType' = byExt
               /\ outgoing' = Set(outgoing, headerContentType, byExt)
               /\ pc' = "range"
               /\ UNCHANGED <<errText, pos, failed, calls>>
          ELSE LET n   == Min(sniffLen, size - pos)
                   det == DetectContentType(SubSeq(Source(size), pos + 1, pos + n))
               IN /\ calls' = calls \cup {"Read", "Seek"}
                  /\ \E ok \in BOOLEAN :
                       IF ok
                       THEN /\ pos' = 0
                            /\ contentType' = det
                            /\ outgoing' = Set(outgoing, headerContentType, det)
                            /\ pc' = "range"
                            /\ UNCHANGED <<errText, failed>>
                       ELSE /\ pos' = pos + n
                            /\ contentType' = det
                            /\ outgoing' = serveErrorHeaders(outgoing,
                                             StatusInternalServerError)
                            /\ errText' = "seeker can't seek"
                            /\ pc' = "errHeader"
                            /\ failed' = TRUE
  /\ UNCHANGED <<inputVars, parseVars, uploadVars, writeVars, decodeVars, rangeReq, ranges, sendSize, sendFrom, remaining,
                 wbuf, ret, prodVars, pipeVars, stream, headerCalls>>

\* content-disposition (lines 190-192)
withDisposition(o) ==
  IF name # ""
  THEN Set(o, headerContentDisposition, "attachment; filename=" \o name)
  ELSE o

\* withLength giving the size of the content whatever is sent
withLength_fullSize(o, isRange, ss) ==
  Set(Set(o, headerContentLength, FormatInt(size)),
      headerTransferEncoding, "identity")

\* content-length and transfer-encoding (lines 271-274)
withLength(o, isRange, ss) ==
  IF isRange \/ pick(o, headerContentEncoding) = ""
  THEN Set(Set(o, headerContentLength, FormatInt(ss)),
           headerTransferEncoding, "identity")
  ELSE o

\* accept-ranges, content-length, transfer-encoding and code (lines 245-275)
finishHeaders(o, isRange, ss, sendCode) ==
  Set(withLength(Set(o, headerAcceptRanges, "bytes"), isRange, ss),
      headerCode, FormatInt(sendCode))

\* the guard on the sum of the ranges with ">=" for ">"
keptRanges_atLeast(pr) ==
  IF pr.err # NoError THEN <<>>
  ELSE IF sumRangesSize(pr.ranges) >= size THEN <<>>
  ELSE pr.ranges

\* the ranges ServeContent keeps after parseRange returned pr (lines 160-183)
keptRanges(pr) ==
  IF pr.err # NoError THEN <<>>
  ELSE IF sumRangesSize(pr.ranges) > size THEN <<>>
  ELSE pr.ranges

\* rangeErrorHeaders without the content-range of the ErrNoOverlap case
rangeErrorHeaders_noContentRange(o, err) ==
  serveErrorHeaders(o, StatusRequestedRangeNotSatisfiable)

\* the metadata serveError is called with after parseRange failed with err
\* (lines 171-174)
rangeErrorHeaders(o, err) ==
  serveErrorHeaders(
    IF err = ErrNoOverlap
    THEN Set(o, headerContentRange, "bytes */" \o FormatInt(size))
    ELSE o,
    StatusRequestedRangeNotSatisfiable)

\* parseRange and the guard on the sum of the ranges (lines 158-183)
ParseRange ==
  /\ pc = "range"
  /\ calls' = calls \cup {"parseRange"}
  /\ \E pr \in {parseRange(rangeReq, size)} :
       IF pr.err # NoError /\ ~(pr.err = ErrNoOverlap /\ size = 0)
       THEN /\ outgoing' = rangeErrorHeaders(outgoing, pr.err)
            /\ errText' = pr.err
            /\ pc' = "errHeader"
            /\ UNCHANGED ranges
       ELSE /\ ranges' = keptRanges(pr)
            /\ pc' = "dispatch"
            /\ UNCHANGED <<outgoing, errText>>
  /\ UNCHANGED <<inputVars, parseVars, uploadVars, writeVars, decodeVars, contentType, rangeReq, sendSize, sendFrom, remaining,
                 wbuf, ret, prodVars, pipeVars, pos, stream, headerCalls, failed>>

\* no range: the whole content (lines 185-192, 245-275)
DispatchFull ==
  /\ pc = "dispatch"
  /\ Len(ranges) = 0
  /\ sendSize' = size
  /\ outgoing' = finishHeaders(withDisposition(outgoing), FALSE, size, StatusOK)
  /\ pc' = "sendHeader"
  /\ UNCHANGED <<inputVars, parseVars, uploadVars, writeVars, decodeVars, contentType, rangeReq, ranges, sendFrom, remaining,
                 wbuf, errText, ret, prodVars, pipeVars, pos, stream,
                 headerCalls, failed, calls>>

\* one range: seek to its start (lines 195-213, 245-275)
DispatchSingle ==
  /\ pc = "dispatch"
  /\ Len(ranges) = 1
  /\ calls' = calls \cup {"Seek"}
  /\ \E ok \in BOOLEAN :
       IF ok
       THEN /\ pos' = ranges[1].start
            /\ sendSize' = ranges[1].length
            /\ outgoing' = finishHeaders(
                              Set(withDisposition(outgoing), headerContentRange,
                                  contentRange(ranges[1], size)),
                              TRUE, ranges[1].length, StatusPartialContent)
            /\ pc' = "sendHeader"
            /\ UNCHANGED <<ret, failed, pipeVars>>
       ELSE /\ Return(ErrSeek)
            /\ failed' = TRUE
            /\ UNCHANGED <<pos, sendSize, outgoing>>
  /\ UNCHANGED <<inputVars, parseVars, uploadVars, writeVars, decodeVars, contentType, rangeReq, ranges, sendFrom, remaining,
                 wbuf, errText, prodVars, stream, headerCalls>>

\* several ranges: the pipe, mWriter and the goroutine (lines 214-243,
\* 245-275); b is the boundary of mWriter, bCount the boundary of the writer
\* inside rangesMIMESize
DispatchMulti ==
  /\ pc = "dispatch"
  /\ Len(ranges) > 1
  /\ \E b \in Boundaries, bCount \in Boundaries :
       \E ms \in {rangesMIMESize(ranges, contentType, size, bCount)} :
         /\ sendSize' = ms
         /\ outgoing' = finishHeaders(
                           Set(withDisposition(outgoing), headerContentType,
                               "multipart/byteranges; boundary=" \o b),
                           TRUE, ms, StatusPartialContent)
         /\ boundary' = b
  /\ sendFrom' = "pipe"
  /\ pipeW' = "open"
  /\ pipeRClosed' = FALSE
  /\ ppc' = "part"
  /\ pidx' = 1
  /\ pc' = "sendHeader"
  /\ UNCHANGED <<inputVars, parseVars, uploadVars, writeVars, decodeVars, contentType, rangeReq, ranges, remaining, wbuf,
                 errText, ret, prem, pwbuf, pos, stream, headerCalls, failed,
                 calls>>

\* server.SendHeader(outgoing) (lines 277-279)
SendHeader ==
  /\ pc = "sendHeader"
  /\ headerCalls' = headerCalls + 1
  /\ calls' = calls \cup {"SendHeader"}
  /\ \E ok \in BOOLEAN :
       IF ok
       THEN /\ stream' = Append(stream, HeaderEvent(outgoing))
            /\ pc' = "copy"
            /\ remaining' = sendSize
            /\ UNCHANGED <<ret, failed, pipeVars>>
       ELSE /\ Return(ErrSendHeader)
            /\ failed' = TRUE
            /\ UNCHANGED <<stream, remaining>>
  /\ UNCHANGED <<inputVars, parseVars, uploadVars, writeVars, decodeVars, contentType, outgoing, rangeReq, ranges, sendSize,
                 sendFrom, wbuf, errText, prodVars, pos>>

\* io.CopyN(writer, content, sendSize): one Read of the limited reader, or
\* the end of the copy (lines 280-281)
CopyRead ==
  /\ pc = "copy"
  /\ sendFrom = "content"
  /\ wbuf = ""
  /\ IF remaining = 0
     THEN /\ Return(NoError)
          /\ UNCHANGED <<remaining, wbuf, pos, failed, calls>>
     ELSE LET n == Min(Min(CopyBufSize, remaining), size - pos) IN
          /\ calls' = calls \cup {"Read"}
          /\ \E ok \in BOOLEAN :
               IF ~ok
               THEN /\ Return(ErrRead)
                    /\ failed' = TRUE
                    /\ UNCHANGED <<remaining, wbuf, pos>>
               ELSE IF n = 0
               THEN /\ Return(EOF)
                    /\ UNCHANGED <<remaining, wbuf, pos, failed>>
               ELSE /\ wbuf' = SubSeq(Source(size), pos + 1, pos + n)
                    /\ pos' = pos + n
                    /\ remaining' = remaining - n
                    /\ UNCHANGED <<pc, ret, pipeVars, failed>>
  /\ UNCHANGED <<inputVars, parseVars, uploadVars, writeVars, decodeVars, contentType, outgoing, rangeReq, ranges, sendSize,
                 sendFrom, errText, prodVars, stream, headerCalls>>

\* the next frame of downloadServerWriter.Write
\* (src/unnamed/part_004 lines 75-93)
WriteChunk(data) == SubSeq(data, 1, Min(Len(data), defaultBufSize))

WriteRest(data) == SubSeq(data, Len(WriteChunk(data)) + 1, Len(data))

\* one Send of the Write of the copy
CopySend ==
  /\ pc = "copy"
  /\ wbuf # ""
  /\ calls' = calls \cup {"Send"}
  /\ \E ok \in BOOLEAN :
       IF ok
       THEN /\ stream' = Append(stream, DataEvent(WriteChunk(wbuf), "main", FALSE))
            /\ wbuf' = WriteRest(wbuf)
            /\ UNCHANGED <<pc, ret, pipeVars, failed>>
       ELSE /\ Return(ErrSend)
            /\ failed' = TRUE
            /\ UNCHANGED <<stream, wbuf>>
  /\ UNCHANGED <<inputVars, parseVars, uploadVars, writeVars, decodeVars, contentType, outgoing, rangeReq, ranges, sendSize,
                 sendFrom, remaining, errText, prodVars, pos, headerCalls>>

\* the copy from the pipe taking every close of the write side for its end
CopyPipeRead_dropError ==
  /\ pc = "copy"
  /\ sendFrom = "pipe"
  /\ pipeW \notin {"none", "open"}
  /\ Return(IF remaining = 0 THEN NoError ELSE EOF)
  /\ UNCHANGED <<inputVars, parseVars, uploadVars, writeVars, decodeVars, contentType,
                 outgoing, rangeReq, ranges, sendSize, sendFrom, remaining,
                 wbuf, errText, prodVars, pos, stream, headerCalls, failed,
                 calls>>

\* io.CopyN(writer, pReader, sendSize): the Read of the pipe blocks until the
\* write side is closed; nothing is ever written to pWriter
CopyPipeRead ==
  /\ pc = "copy"
  /\ sendFrom = "pipe"
  /\ pipeW \notin {"none", "open"}
  /\ Return(IF remaining = 0 THEN NoError ELSE pipeW)
  /\ UNCHANGED <<inputVars, parseVars, uploadVars, writeVars, decodeVars, contentType, outgoing, rangeReq, ranges, sendSize,
                 sendFrom, remaining, wbuf, errText, prodVars, pos, stream,
                 headerCalls, failed, calls>>

\* serveError: SendHeader (lines 307-309)
ErrorHeader ==
  /\ pc = "errHeader"
  /\ headerCalls' = headerCalls + 1
  /\ calls' = calls \cup {"SendHeader"}
  /\ \E ok \in BOOLEAN :
       IF ok
       THEN /\ stream' = Append(stream, HeaderEvent(outgoing))
            /\ pc' = "errBody"
            /\ UNCHANGED <<ret, failed, pipeVars>>
       ELSE /\ Return(ErrSendHeader)
            /\ failed' = TRUE
            /\ UNCHANGED stream
  /\ UNCHANGED <<inputVars, parseVars, uploadVars, writeVars, decodeVars, contentType, outgoing, rangeReq, ranges, sendSize,
                 sendFrom, remaining, wbuf, errText, prodVars, pos>>

\* serveError: Send of the text (lines 310-313)
ErrorBody ==
  /\ pc = "errBody"
  /\ calls' = calls \cup {"Send"}
  /\ \E ok \in BOOLEAN :
       IF ok
       THEN /\ stream' = Append(stream, DataEvent(errText, "main", FALSE))
            /\ Return(NoError)
            /\ UNCHANGED failed
       ELSE /\ Return(ErrSend)
            /\ failed' = TRUE
            /\ UNCHANGED stream
  /\ UNCHANGED <<inputVars, parseVars, uploadVars, writeVars, decodeVars, contentType, outgoing, rangeReq, ranges, sendSize,
                 sendFrom, remaining, wbuf, errText, prodVars, pos, headerCalls>>

(***************************************************************************)
(* ServeContent: the goroutine of the multi-range case (lines 224-242)     *)
(***************************************************************************)
\* pWriter.CloseWithError(err), pWriter.Close(): the first close wins
CloseWithError(err) ==
  /\ pipeW' = IF pipeW = "open" THEN err ELSE pipeW
  /\ UNCHANGED pipeRClosed

\* mWriter.CreatePart(ra.mimeHeader(contentType, size)) up to its Write
CreatePart ==
  /\ ppc = "part"
  /\ pwbuf' = createPartBytes(boundary, pidx = 1,
                              mimeHeader(ranges[pidx], contentType, size))
  /\ ppc' = "header"
  /\ UNCHANGED <<inputVars, parseVars, uploadVars, writeVars, decodeVars, mainVars, pidx, prem, boundary, pipeVars, pos,
                 stream, headerCalls, failed, calls>>

\* content.Seek(ra.start, io.SeekStart)
PartSeek ==
  /\ ppc = "seek"
  /\ calls' = calls \cup {"Seek"}
  /\ \E ok \in BOOLEAN :
       IF ok
       THEN /\ pos' = ranges[pidx].start
            /\ prem' = ranges[pidx].length
            /\ ppc' = "copy"
            /\ UNCHANGED <<pipeVars, failed>>
       ELSE /\ CloseWithError(ErrSeek)
            /\ ppc' = "exit"
            /\ failed' = TRUE
            /\ UNCHANGED <<pos, prem>>
  /\ UNCHANGED <<inputVars, parseVars, uploadVars, writeVars, decodeVars, mainVars, pidx, pwbuf, boundary, stream,
                 headerCalls>>

\* io.CopyN(part, content, ra.length): one Read of the limited reader, or the
\* end of the copy and the step to the next range
PartRead ==
  /\ ppc = "copy"
  /\ IF prem = 0
     THEN /\ IF pidx < Len(ranges)
             THEN /\ pidx' = pidx + 1
                  /\ ppc' = "part"
             ELSE /\ ppc' = "close"
                  /\ UNCHANGED pidx
          /\ UNCHANGED <<prem, pwbuf, pos, pipeVars, failed, calls>>
     ELSE LET n == Min(Min(CopyBufSize, prem), size - pos) IN
          /\ calls' = calls \cup {"Read"}
          /\ UNCHANGED pidx
          /\ \E ok \in BOOLEAN :
               IF ~ok
               THEN /\ CloseWithError(ErrRead)
                    /\ ppc' = "exit"
                    /\ failed' = TRUE
                    /\ UNCHANGED <<prem, pwbuf, pos>>
               ELSE IF n = 0
               THEN /\ CloseWithError(EOF)
                    /\ ppc' = "exit"
                    /\ UNCHANGED <<prem, pwbuf, pos, failed>>
               ELSE /\ pwbuf' = SubSeq(Source(size), pos + 1, pos + n)
                    /\ pos' = pos + n
                    /\ prem' = prem - n
                    /\ ppc' = "data"
                    /\ UNCHANGED <<pipeVars, failed>>
  /\ UNCHANGED <<inputVars, parseVars, uploadVars, writeVars, decodeVars, mainVars, boundary, stream, headerCalls>>

\* mWriter.Close() up to its Write
CloseWriter ==
  /\ ppc = "close"
  /\ pwbuf' = closeBytes(boundary)
  /\ ppc' = "closing"
  /\ UNCHANGED <<inputVars, parseVars, uploadVars, writeVars, decodeVars, mainVars, pidx, prem, boundary, pipeVars, pos,
                 stream, headerCalls, failed, calls>>

\* one Send of a Write of mWriter, which writes to
\* newDownloadServerWriter(server, contentType) (line 219).  A failure ends
\* the goroutine, except in mWriter.Close(), whose error is dropped.
PartSend ==
  /\ ppc \in {"header", "data", "closing"}
  /\ calls' = calls \cup {"Send"}
  /\ \E ok \in BOOLEAN :
       IF ok
       THEN /\ stream' = Append(stream,
                           DataEvent(WriteChunk(pwbuf), "producer", ret # Running))
            /\ pwbuf' = WriteRest(pwbuf)
            /\ ppc' = IF WriteRest(pwbuf) # "" THEN ppc
                      ELSE CASE ppc = "header"  -> "seek"
                             [] ppc = "data"    -> "copy"
                             [] ppc = "closing" -> "closePipe"
            /\ UNCHANGED <<pipeVars, failed>>
       ELSE /\ failed' = TRUE
            /\ UNCHANGED <<stream, pwbuf>>
            /\ IF ppc = "closing"
               THEN /\ ppc' = "closePipe"
                    /\ UNCHANGED pipeVars
               ELSE /\ ppc' = "exit"
                    /\ CloseWithError(ErrSend)
  /\ UNCHANGED <<inputVars, parseVars, uploadVars, writeVars, decodeVars, mainVars, pidx, prem, boundary, pos, headerCalls>>

\* pWriter.Close()
ClosePipe ==
  /\ ppc = "closePipe"
  /\ CloseWithError(EOF)
  /\ ppc' = "exit"
  /\ UNCHANGED <<inputVars, parseVars, uploadVars, writeVars, decodeVars, mainVars, pidx, prem, pwbuf, boundary, pos, stream,
                 headerCalls, failed, calls>>

Next ==
  \/ Preconditions
  \/ ServeDone
  \/ ContentType
  \/ ParseRange
  \/ DispatchFull
  \/ DispatchSingle
  \/ DispatchMulti
  \/ SendHeader
  \/ CopyRead
  \/ CopySend
  \/ CopyPipeRead
  \/ ErrorHeader
  \/ ErrorBody
  \/ CreatePart
  \/ PartSeek
  \/ PartRead
  \/ CloseWriter
  \/ PartSend
  \/ ClosePipe

Spec == Init /\ [][Next]_vars

\* ServeContent with its calls returning: SendHeader returns, and the Read
\* of the pipe returns once the write side is closed
SpecFair == Spec /\ WF_vars(SendHeader) /\ WF_vars(CopyPipeRead)

(***************************************************************************)
(* parseRange on its own: every header of ParseHeaders against every size  *)
(***************************************************************************)
\* the byte-range specs the headers are made of
ParseSpecs ==
  {"0-0", "0-1", "1-2", "1-", "0-", "2-9", "-1", "-2", "-0", "-9",
   "3-", "9-9", "2-1", "1-0", "3-x", "3-1", "1-x", "x-1", "-x", "--1",
   "1--1", "x", "1", "-", "", " 1 - 2 ", "+1-2"}

ParseHeaders ==
  {"", "items=0-1", "bytes 0-1", "Bytes=0-1", "0-1", " bytes=0-1"}
    \cup {"bytes=" \o a : a \in ParseSpecs}
    \cup {"bytes=" \o a \o "," \o b : a \in ParseSpecs, b \in ParseSpecs}
    \cup {"bytes=0-0,1-1,2-2", "bytes=9-,x,0-0", "bytes=9-, 8- ,7-",
          "bytes=2-2,,0-0, -1", "bytes=0-0,0-0,3-1"}

InitParse ==
  /\ pc = "off"
  /\ InitLocals
  /\ incoming = NewMD /\ name = "" /\ modTime = zeroTime /\ size = 0
  /\ contentType = ""
  /\ parsePc = "call"
  /\ parseS \in ParseHeaders
  /\ parseSize \in Sizes
  /\ parseRet = [ranges |-> <<>>, err |-> NoError]
  /\ parseRet2 = [ranges |-> <<>>, err |-> NoError]
  /\ InitNoUpload
  /\ InitNoWrite
  /\ InitNoDecode

\* ranges, err := parseRange(s, size)
CallParseRange ==
  /\ parsePc = "call"
  /\ parseRet' = parseRange(parseS, parseSize)
  /\ parsePc' = "again"
  /\ UNCHANGED <<inputVars, mainVars, prodVars, pipeVars, pos, stream,
                 headerCalls, failed, calls, uploadVars, writeVars, decodeVars, parseS, parseSize, parseRet2>>

\* the same call once more
CallParseRangeAgain ==
  /\ parsePc = "again"
  /\ parseRet2' = parseRange(parseS, parseSize)
  /\ parsePc' = "done"
  /\ UNCHANGED <<inputVars, mainVars, prodVars, pipeVars, pos, stream,
                 headerCalls, failed, calls, uploadVars, writeVars, decodeVars, parseS, parseSize, parseRet>>

NextParse ==
  \/ CallParseRange
  \/ CallParseRangeAgain

SpecParse == InitParse /\ [][NextParse]_vars

(***************************************************************************)
(* uploadServerReader: a client stream of frames read through Read         *)
(***************************************************************************)
ErrSizeLimitExceeded == "size limit exceeded"

ErrRecv == "recv failed"

\* server.Recv(): the next frame, or the error that ends the stream
Recv ==
  IF upRecvd < Len(upFrames)
  THEN [err |-> NoError, data |-> upFrames[upRecvd + 1]]
  ELSE [err |-> upEnd, data |-> ""]

\* Read dropping what does not fit in the caller's buffer
Read_dropLeftover(buf, sizeCurrent, sizeLimit, body, dst) ==
  LET recv == Len(buf) = 0
      src  == IF recv THEN body.data ELSE buf
      rn   == IF Len(src) > dst THEN dst ELSE Len(src)
  IN
  IF recv /\ body.err # NoError THEN
    [buf |-> buf, sizeCurrent |-> sizeCurrent, recv |-> TRUE,
     n |-> 0, err |-> body.err, data |-> ""]
  ELSE IF sizeLimit > 0 /\ sizeCurrent + rn > sizeLimit THEN
    [buf |-> buf, sizeCurrent |-> sizeCurrent, recv |-> recv,
     n |-> 0, err |-> ErrSizeLimitExceeded, data |-> ""]
  ELSE
    [buf |-> "",
     sizeCurrent |-> IF sizeLimit > 0 THEN sizeCurrent + rn ELSE sizeCurrent,
     recv |-> recv, n |-> rn, err |-> NoError, data |-> SubSeq(src, 1, rn)]

\* Read holding the whole of src against the limit, not the bytes it returns
Read_countFrame(buf, sizeCurrent, sizeLimit, body, dst) ==
  LET recv == Len(buf) = 0
      src  == IF recv THEN body.data ELSE buf
      rn   == IF Len(src) > dst THEN dst ELSE Len(src)
  IN
  IF recv /\ body.err # NoError THEN
    [buf |-> buf, sizeCurrent |-> sizeCurrent, recv |-> TRUE,
     n |-> 0, err |-> body.err, data |-> ""]
  ELSE IF sizeLimit > 0 /\ sizeCurrent + Len(src) > sizeLimit THEN
    [buf |-> buf, sizeCurrent |-> sizeCurrent, recv |-> recv,
     n |-> 0, err |-> ErrSizeLimitExceeded, data |-> ""]
  ELSE
    [buf |-> SubSeq(src, rn + 1, Len(src)),
     sizeCurrent |-> IF sizeLimit > 0 THEN sizeCurrent + rn ELSE sizeCurrent,
     recv |-> recv, n |-> rn, err |-> NoError, data |-> SubSeq(src, 1, rn)]

\* uploadServerReader.Read on a buffer of dst bytes; body is what Recv
\* returns if it is called.  Gives the reader's fields and the results.
Read(buf, sizeCurrent, sizeLimit, body, dst) ==
  LET recv == Len(buf) = 0
      src  == IF recv THEN body.data ELSE buf
      rn   == IF Len(src) > dst THEN dst ELSE Len(src)
  IN
  IF recv /\ body.err # NoError THEN
    [buf |-> buf, sizeCurrent |-> sizeCurrent, recv |-> TRUE,
     n |-> 0, err |-> body.err, data |-> ""]
  ELSE IF sizeLimit > 0 /\ sizeCurrent + rn > sizeLimit THEN
    [buf |-> buf, sizeCurrent |-> sizeCurrent, recv |-> recv,
     n |-> 0, err |-> ErrSizeLimitExceeded, data |-> ""]
  ELSE
    [buf |-> SubSeq(src, rn + 1, Len(src)),
     sizeCurrent |-> IF sizeLimit > 0 THEN sizeCurrent + rn ELSE sizeCurrent,
     recv |-> recv, n |-> rn, err |-> NoError, data |-> SubSeq(src, 1, rn)]

\* the frames of a stream: the letters of the alphabet, in order, cut into
\* payloads of the given lengths
RECURSIVE FramesOf(_, _)
FramesOf(lens, from) ==
  IF lens = <<>> THEN <<>>
  ELSE <<SubSeq("abcdefghijklmnopqrstuvwxyz", from + 1, from + Head(lens))>>
         \o FramesOf(Tail(lens), from + Head(lens))

FrameLengths == UNION {[1..k -> 0..MaxFrameLen] : k \in 0..MaxFrames}

InitUpload ==
  /\ pc = "off"
  /\ InitLocals
  /\ incoming = NewMD /\ name = "" /\ modTime = zeroTime /\ size = 0
  /\ contentType = ""
  /\ InitNoParse
  /\ InitNoWrite
  /\ InitNoDecode
  /\ upPc = "read"
  /\ upFrames \in {FramesOf(lens, 0) : lens \in FrameLengths}
  /\ upEnd \in {EOF, ErrRecv}
  /\ upRecvd = 0
  /\ rdBuf = ""
  /\ rdSizeCurrent = 0
  /\ rdSizeLimit \in 0..MaxLimit
  /\ upReads = 0
  /\ upOut = ""
  /\ upLast = ReadCall(0, 0, 0, FALSE, 0, NoError, "", FALSE)

\* n, err := reader.Read(dst), for a buffer of any length up to MaxDst
CallRead ==
  /\ upPc = "read"
  /\ upReads < MaxReads
  /\ upReads' = upReads + 1
  /\ \E dst \in 0..MaxDst :
       \E r \in {Read(rdBuf, rdSizeCurrent, rdSizeLimit, Recv, dst)} :
         /\ rdBuf' = r.buf
         /\ rdSizeCurrent' = r.sizeCurrent
         /\ upRecvd' = IF r.recv /\ upRecvd < Len(upFrames)
                       THEN upRecvd + 1 ELSE upRecvd
         /\ upOut' = upOut \o r.data
         /\ upLast' = ReadCall(dst, Len(rdBuf), rdSizeCurrent, r.recv,
                               r.n, r.err, r.data,
                               upLast.after \/ upLast.err # NoError)
  /\ UNCHANGED <<inputVars, mainVars, prodVars, pipeVars, pos, stream,
                 headerCalls, failed, calls, parseVars, writeVars, decodeVars, upPc,
                 upFrames, upEnd, rdSizeLimit>>

NextUpload == CallRead

SpecUpload == InitUpload /\ [][NextUpload]_vars

(***************************************************************************)
(* downloadServerWriter: Write calls on a writer of                        *)
(* newDownloadServerWriter, over a stream whose Send may fail              *)
(***************************************************************************)
\* the bytes written: all distinct
Bytes == "abcdefghijklmnopqrstuvwxyzABCDEFGHIJKLMNOPQRSTUVWXYZ0123456789"

\* Write counting the chunk whose Send failed among the bytes written
WriteLoop_countFailed(data, okSends, n, frames) ==
  LET full == Min(okSends, Len(data) \div defaultBufSize)
      sent == IF okSends * defaultBufSize >= Len(data) THEN Len(data)
              ELSE full * defaultBufSize
  IN
  [n |-> IF sent = Len(data) THEN sent
         ELSE Min(Len(data), sent + defaultBufSize),
   err |-> IF sent = Len(data) THEN NoError ELSE ErrSend,
   frames |-> [i \in 1..((sent + defaultBufSize - 1) \div defaultBufSize) |->
                 SubSeq(data, (i - 1) * defaultBufSize + 1,
                        Min(sent, i * defaultBufSize))]]

\* Write sending the whole buffer as one frame
WriteLoop_sendAll(data, okSends, n, frames) ==
  [n |-> Len(data), err |-> NoError,
   frames |-> IF data = "" THEN <<>> ELSE <<data>>]

\* the loop of downloadServerWriter.Write (src/unnamed/part_004 lines
\* 75-93): data is what is left to write, okSends the number of calls of
\* Send that will still succeed, n the bytes written and frames the
\* payloads sent so far.  Gives the results and the payloads sent.
RECURSIVE WriteLoop(_, _, _, _)
WriteLoop(data, okSends, n, frames) ==
  IF Len(data) = 0 THEN [n |-> n, err |-> NoError, frames |-> frames]
  ELSE IF okSends = 0 THEN [n |-> n, err |-> ErrSend, frames |-> frames]
  ELSE WriteLoop(WriteRest(data), okSends - 1, n + Len(WriteChunk(data)),
                 Append(frames, WriteChunk(data)))

\* n, err := writer.Write(data)
Write(data, okSends) == WriteLoop(data, okSends, 0, <<>>)

\* the lengths of the buffers written: around the multiples of the chunk
\* size
DataLengths ==
  {0, 1} \cup {k * defaultBufSize + d : k \in 1..MaxChunks, d \in {0 - 1, 0, 1}}

InitWrite ==
  /\ pc = "off"
  /\ InitLocals
  /\ incoming = NewMD /\ name = "" /\ modTime = zeroTime /\ size = 0
  /\ contentType = ""
  /\ InitNoParse
  /\ InitNoUpload
  /\ InitNoDecode
  /\ wrPc = "write"
  /\ wrStream = <<>>
  /\ wrHist = <<>>

\* n, err := writer.Write(data), for a buffer of one of DataLengths and a
\* stream whose Send fails after any number of calls
CallWrite ==
  /\ wrPc = "write"
  /\ Len(wrHist) < MaxWrites
  /\ \E len \in DataLengths, from \in {0, Len(wrHist) + 1},
        okSends \in 0..(MaxChunks + 1) :
       \E data \in {SubSeq(Bytes, from + 1, from + len)} :
         \E w \in {Write(data, okSends)} :
           /\ wrStream' = wrStream \o w.frames
           /\ wrHist' = Append(wrHist,
                               [data |-> data, n |-> w.n, err |-> w.err,
                                frames |-> w.frames, before |-> Len(wrStream)])
  /\ UNCHANGED <<inputVars, mainVars, prodVars, pipeVars, pos, stream,
                 headerCalls, failed, calls, parseVars, uploadVars,
                 decodeVars, wrPc>>

NextWrite == CallWrite

SpecWrite == InitWrite /\ [][NextWrite]_vars

(***************************************************************************)
(* httpBodyDecoder: Decode calls on a decoder of NewDecoder, whose buffer  *)
(* has defaultBufSize bytes, over a request body                           *)
(***************************************************************************)
ErrUnexpectedEOF == "unexpected EOF"

ErrJSON == "json: cannot decode"

\* io.ReadFull(body, buf) on a body read up to offset at: it fills buf
\* unless the body ends first, whatever the sizes of the reads the body
\* serves
ReadFull(body, end, at, len) ==
  LET n == Min(len, Len(body) - at) IN
  [n |-> n,
   err |-> IF n = len THEN NoError
           ELSE IF end # EOF THEN end
           ELSE IF n = 0 THEN EOF ELSE ErrUnexpectedEOF,
   data |-> SubSeq(body, at + 1, at + n)]

\* Decode ending the input at io.EOF only
Decode_eofOnly(eof, body, end, at) ==
  LET r == ReadFull(body, end, at, defaultBufSize) IN
  IF eof THEN
    [eof |-> TRUE, at |-> at, read |-> FALSE, n |-> 0, err |-> EOF,
     data |-> ""]
  ELSE
    [eof |-> r.err = EOF, at |-> at + r.n, read |-> TRUE, n |-> r.n,
     err |-> IF r.err = EOF THEN NoError ELSE r.err,
     data |-> r.data]

\* httpBodyDecoder.Decode(v) for a fresh *httpbody.HttpBody (lines 118-138):
\* gives decoder.eof, the offset of the body, the results and v.Data
Decode(eof, body, end, at) ==
  LET r == ReadFull(body, end, at, defaultBufSize) IN
  IF eof THEN
    [eof |-> TRUE, at |-> at, read |-> FALSE, n |-> 0, err |-> EOF,
     data |-> ""]
  ELSE
    [eof |-> r.err \in {ErrUnexpectedEOF, EOF}, at |-> at + r.n,
     read |-> TRUE, n |-> r.n,
     err |-> IF r.err \in {ErrUnexpectedEOF, EOF} THEN NoError ELSE r.err,
     data |-> r.data]

InitDecode ==
  /\ pc = "off"
  /\ InitLocals
  /\ incoming = NewMD /\ name = "" /\ modTime = zeroTime /\ size = 0
  /\ contentType = ""
  /\ InitNoParse
  /\ InitNoUpload
  /\ InitNoWrite
  /\ decPc = "decode"
  /\ decBody \in {SubSeq(Bytes, 1, len) : len \in DataLengths}
  /\ decEnd \in {EOF, ErrRead}
  /\ decPos = 0
  /\ decEof = FALSE
  /\ decOut = <<>>
  /\ decLast = DecodeCall(FALSE, FALSE, 0, NoError, "")
  /\ decOther = FALSE
  /\ decCalls = 0

\* err := decoder.Decode(&body) for a fresh httpbody.HttpBody
CallDecode ==
  /\ decPc = "decode"
  /\ decCalls < MaxDecodes
  /\ decCalls' = decCalls + 1
  /\ \E d \in {Decode(decEof, decBody, decEnd, decPos)} :
       /\ decEof' = d.eof
       /\ decPos' = d.at
       /\ decOut' = IF d.err = NoError THEN Append(decOut, d.data) ELSE decOut
       /\ decLast' = DecodeCall(decEof, d.read, d.n, d.err, d.data)
  /\ UNCHANGED <<inputVars, mainVars, prodVars, pipeVars, pos, stream,
                 headerCalls, failed, calls, parseVars, uploadVars, writeVars,
                 decPc, decBody, decEnd, decOther>>

\* err := decoder.Decode(v) for a v of another type: the call goes to the
\* JSON decoder (lines 119-123), which reads the same body, any number of
\* bytes, and succeeds or not
CallDecodeOther ==
  /\ decPc = "decode"
  /\ decCalls < MaxDecodes
  /\ decCalls' = decCalls + 1
  /\ decOther' = TRUE
  /\ \E k \in {0, 1, Len(decBody) - decPos}, ok \in BOOLEAN :
       /\ k <= Len(decBody) - decPos
       /\ decPos' = decPos + k
       /\ decLast' = DecodeCall(decEof, k > 0, k,
                                IF ok THEN NoError ELSE ErrJSON, "")
  /\ UNCHANGED <<inputVars, mainVars, prodVars, pipeVars, pos, stream,
                 headerCalls, failed, calls, parseVars, uploadVars, writeVars,
                 decPc, decBody, decEnd, decEof, decOut>>

NextDecode ==
  \/ CallDecode
  \/ CallDecodeOther

SpecDecode == InitDecode /\ [][NextDecode]_vars

(***************************************************************************)
(* Observations on a state                                                 *)
(***************************************************************************)
Returned == pc = "returned"

\* the data frames on the stream so far, concatenated
RECURSIVE BodyOf(_)
BodyOf(st) ==
  IF Len(st) = 0 THEN ""
  ELSE (IF Head(st).kind = "data" THEN Head(st).data ELSE "") \o BodyOf(Tail(st))

Body == BodyOf(stream)

HeaderSent == \E i \in 1..Len(stream) : stream[i].kind = "header"

\* the metadata of the first SendHeader that succeeded
Committed ==
  stream[CHOOSE i \in 1..Len(stream) : /\ stream[i].kind = "header"
                                       /\ \A j \in 1..(i - 1) : stream[j].kind # "header"].md

NoConditionalHeaders == DOMAIN incoming \subseteq {headerRange}

RangeHeader == pick(incoming, headerRange)

(***************************************************************************)
(* C1: SendHeader is called at most once, and no body frame is put on the  *)
(* stream before SendHeader has returned.                                  *)
(***************************************************************************)
C1_HeaderBeforeBody ==
  /\ headerCalls <= 1
  /\ \A i \in 1..Len(stream) :
       stream[i].kind = "data" => \E j \in 1..(i - 1) : stream[j].kind = "header"

(***************************************************************************)
(* C2: when a request with two or more ranges has been served without any  *)
(* failing call, the bytes of all the frames sent add up to the            *)
(* content-length that SendHeader committed.                               *)
(***************************************************************************)
C2_BodyMatchesContentLength ==
  (Returned /\ Len(ranges) > 1 /\ ~failed) =>
     /\ HeaderSent
     /\ pick(Committed, headerContentLength) = FormatInt(Len(Body))
     /\ sendSize = Len(Body)

C2_Witness ==
  /\ Returned /\ Len(ranges) > 1 /\ ~failed
  /\ HeaderSent
  /\ Len(Body) > sumRangesSize(ranges)
  /\ ppc = "exit"

(***************************************************************************)
(* C3: a request with two or more ranges whose calls all succeed returns   *)
(* without error.                                                          *)
(***************************************************************************)
C3_MultiRangeReturnsNil ==
  (Returned /\ Len(ranges) > 1 /\ ~failed) => ret = NoError

(***************************************************************************)
(* C4: a request whose only header is Range: bytes=a-b with                *)
(* 0 <= a <= b < size commits 206, content-range "bytes a-b/size" and      *)
(* content-length b-a+1, and its frames carry the bytes a..b of the        *)
(* content.                                                                *)
(***************************************************************************)
SingleRangeOf(a, b) == "bytes=" \o FormatInt(a) \o "-" \o FormatInt(b)

C4_SingleRange ==
  (NoConditionalHeaders /\ ~failed) =>
    \A a \in Offsets, b \in Offsets :
      (a <= b /\ b < size /\ RangeHeader = SingleRangeOf(a, b)) =>
        /\ HeaderSent =>
             /\ pick(Committed, headerCode) = "206"
             /\ pick(Committed, headerContentRange) =
                  "bytes " \o FormatInt(a) \o "-" \o FormatInt(b) \o "/" \o FormatInt(size)
             /\ pick(Committed, headerContentLength) = FormatInt(b - a + 1)
        /\ Returned =>
             /\ HeaderSent
             /\ ret = NoError
             /\ Body = SubSeq(Source(size), a + 1, b + 1)

C4_Witness ==
  /\ Returned /\ ~failed /\ NoConditionalHeaders
  /\ size = 3
  /\ RangeHeader = "bytes=1-1"
  /\ Body = "b"
  /\ HeaderSent
  /\ pick(Committed, headerContentRange) = "bytes 1-1/3"

(***************************************************************************)
(* C5: a well-formed Range header whose specs all start at or beyond the   *)
(* size of a non-empty resource gets 416 with content-range                *)
(* "bytes */<size>"; no byte of the content is sent and no range applied.  *)
(***************************************************************************)
BeyondHeaders(sz) ==
  {SingleRangeOf(q[1], q[2]) :
     q \in {o \in Offsets \X Offsets : o[1] >= sz /\ o[2] >= o[1]}}
    \cup {"bytes=" \o FormatInt(a) \o "-" : a \in {x \in Offsets : x >= sz}}
    \cup (IF sz <= 7 THEN {"bytes=7-8,9-"} ELSE {})

C5_NoOverlap ==
  (size > 0 /\ NoConditionalHeaders /\ ~failed /\ RangeHeader \in BeyondHeaders(size)) =>
    /\ HeaderSent =>
         /\ pick(Committed, headerCode) = "416"
         /\ pick(Committed, headerContentRange) = "bytes */" \o FormatInt(size)
    /\ Body \in {"", ErrNoOverlap}
    /\ ranges = <<>>
    /\ pos = 0
    /\ Returned => (HeaderSent /\ Body = ErrNoOverlap)

C5_Witness ==
  /\ Returned /\ ~failed /\ NoConditionalHeaders
  /\ size = 2
  /\ RangeHeader = "bytes=2-3"
  /\ HeaderSent
  /\ pick(Committed, headerCode) = "416"
  /\ Body = ErrNoOverlap

(***************************************************************************)
(* C6: for an empty resource every well-formed Range header is ignored:    *)
(* the response is 200 without content-range and with an empty body.       *)
(***************************************************************************)
WellFormedRangeHeaders ==
  {SingleRangeOf(q[1], q[2]) :
     q \in {o \in Offsets \X Offsets : o[2] >= o[1]}}
    \cup {"bytes=" \o FormatInt(a) \o "-" : a \in Offsets}
    \cup {"bytes=-" \o FormatInt(n) : n \in Offsets}

C6_EmptyResourceIgnoresRange ==
  (size = 0 /\ NoConditionalHeaders /\ ~failed /\ RangeHeader \in WellFormedRangeHeaders) =>
    /\ HeaderSent =>
         /\ pick(Committed, headerCode) = "200"
         /\ headerContentRange \notin DOMAIN Committed
    /\ Body = ""

(***************************************************************************)
(* Observations on the precondition step                                   *)
(***************************************************************************)
IfMatchValue == pick(incoming, headerIfMatch)

IfNoneMatchValue == pick(incoming, headerIfNoneMatch)

IfModifiedSinceValue == pick(incoming, headerIfModifiedSince)

IfUnmodifiedSinceValue == pick(incoming, headerIfUnmodifiedSince)

\* the ETag checkPreconditions finds in the response metadata
ResourceETag == pick(outgoing, headerETag)

Evaluated == pc # "start"

PreconditionFailed == Evaluated /\ pick(outgoing, headerCode) = "412"

NotModified == Evaluated /\ pick(outgoing, headerCode) = "304"

\* e is W/"..." or "..." with no quote, space or control character inside
WellFormedETag(e) ==
  \E q \in {TrimPrefix(e, "W/")} :
    /\ Len(q) >= 2
    /\ At(q, 1) = "\"" /\ At(q, Len(q)) = "\""
    /\ \A i \in 2..(Len(q) - 1) : ETagChar(At(q, i))

StrongEqual(e, etag) == e = etag /\ WellFormedETag(e) /\ ~HasPrefix(e, "W/")

WeakEqual(e, etag) ==
  /\ WellFormedETag(e) /\ WellFormedETag(etag)
  /\ TrimPrefix(e, "W/") = TrimPrefix(etag, "W/")

\* the elements of a comma-separated list, trimmed
Listed(v) == {TrimString(Split(v, ",")[i]) : i \in 1..Len(Split(v, ","))}

\* p consists of white space, commas and well-formed ETags that do not
\* strong-match etag
RECURSIVE Skipped(_, _)
Skipped(p, etag) ==
  \/ p = ""
  \/ /\ p # ""
     /\ (IsASCIISpace(At(p, 1)) \/ At(p, 1) = ",")
     /\ Skipped(Tail(p), etag)
  \/ \E j \in 1..Len(p) :
       /\ WellFormedETag(SubSeq(p, 1, j))
       /\ ~StrongEqual(SubSeq(p, 1, j), etag)
       /\ Skipped(SubSeq(p, j + 1, Len(p)), etag)

\* read from the left, v shows a "*" or an ETag that strong-matches etag
\* after nothing but white space, commas and non-matching well-formed ETags
ReachesStarOrMatch(v, etag) ==
  \E i \in 1..Len(v) :
    /\ Skipped(SubSeq(v, 1, i - 1), etag)
    /\ \/ At(v, i) = "*"
       \/ \E j \in i..Len(v) : StrongEqual(SubSeq(v, i, j), etag)

\* the resources' ETags checkPreconditions is evaluated against
ResourceETags == {"\"a\"", "W/\"a\"", "\"b\""}

\* checkPreconditions on the request at hand, for response metadata that
\* already holds an ETag
PreconditionsWith(etag) ==
  checkPreconditions(Set(setLastModified(NewMD, modTime), headerETag, etag),
                     incoming, modTime)

WithHeader(md, key, val) == IF val = "" THEN Delete(md, key) ELSE Set(md, key, val)

(***************************************************************************)
(* C7: with If-Match present, whether checkPreconditions ends in 412 is    *)
(* the same for every If-Unmodified-Since value and every modTime.         *)
(***************************************************************************)
C7_IfMatchAlone ==
  (pc \in {"serveDone", "type"} /\ IfMatchValue # "") =>
    \A ius \in DateHeaders, mt \in ModTimes :
      (pick(checkPreconditions(setLastModified(NewMD, mt),
                               WithHeader(incoming, headerIfUnmodifiedSince, ius),
                               mt).outgoing, headerCode) = "412")
        <=> PreconditionFailed

C7_Witness ==
  /\ pc = "type"
  /\ IfMatchValue = "*"
  /\ IfUnmodifiedSinceValue = "T0 GMT"
  /\ modTime = Time(2 * TicksPerSecond)
  /\ ~PreconditionFailed

(***************************************************************************)
(* C8 as stated: with If-Match present the request proceeds if the value   *)
(* is "*" or a listed ETag is identical to the resource's ETag and not     *)
(* weak; otherwise the outcome is 412 and the Range header is not parsed.  *)
(* The second conjunct states the decision for resources that have an ETag.*)
(***************************************************************************)
C8_StarOrListed ==
  /\ (Evaluated /\ IfMatchValue # "") =>
       IF \/ TrimString(IfMatchValue) = "*"
          \/ \E e \in Listed(IfMatchValue) : StrongEqual(e, ResourceETag)
       THEN ~PreconditionFailed
       ELSE PreconditionFailed /\ "parseRange" \notin calls
  /\ (pc \in {"serveDone", "type"} /\ IfMatchValue # "") =>
       \A etag \in ResourceETags :
         (pick(PreconditionsWith(etag).outgoing, headerCode) # "412")
         <=> \/ TrimString(IfMatchValue) = "*"
             \/ \E e \in Listed(IfMatchValue) : StrongEqual(e, etag)

(***************************************************************************)
(* C8 as amended: with If-Match present the request proceeds exactly when, *)
(* read from the left past white space, commas and well-formed ETags that  *)
(* do not match, the value shows a "*" or an ETag that strong-matches the  *)
(* resource's ETag; otherwise the outcome is 412 and the Range header is   *)
(* not parsed.                                                             *)
(***************************************************************************)
C8_ReachesStarOrMatch ==
  /\ (Evaluated /\ IfMatchValue # "") =>
       IF ReachesStarOrMatch(IfMatchValue, ResourceETag)
       THEN ~PreconditionFailed
       ELSE PreconditionFailed /\ "parseRange" \notin calls
  /\ (pc \in {"serveDone", "type"} /\ IfMatchValue # "") =>
       \A etag \in ResourceETags :
         /\ (pick(PreconditionsWith(etag).outgoing, headerCode) # "412")
            <=> ReachesStarOrMatch(IfMatchValue, etag)
         /\ pick(PreconditionsWith(etag).outgoing, headerCode) = "412"
            => PreconditionsWith(etag).done

C8_Witness ==
  /\ Returned
  /\ IfMatchValue = "\"b\", *"
  /\ ~PreconditionFailed
  /\ "parseRange" \in calls

(***************************************************************************)
(* C9: when the If-Match step (If-Match, or If-Unmodified-Since when       *)
(* If-Match is absent) has not ended in 412 and                            *)
(* If-None-Match is "*" or lists an ETag that weak-matches the resource's  *)
(* ETag, the response is 304; the committed headers have no content-type,  *)
(* content-length or content-encoding, and have last-modified only if the  *)
(* resource has no ETag.  ServeContent starts from response metadata       *)
(* without an ETag; the second conjunct states the same of                 *)
(* checkPreconditions for response metadata that holds one.                *)
(***************************************************************************)
NotModifiedHeaders(md) ==
  /\ pick(md, headerCode) = "304"
  /\ headerContentType \notin DOMAIN md
  /\ headerContentLength \notin DOMAIN md
  /\ headerContentEncoding \notin DOMAIN md
  /\ headerLastModified \in DOMAIN md => pick(md, headerETag) = ""

C9_IfNoneMatch ==
  /\ (/\ Evaluated
      /\ ~PreconditionFailed
      /\ \/ TrimString(IfNoneMatchValue) = "*"
         \/ \E e \in Listed(IfNoneMatchValue) : WeakEqual(e, ResourceETag))
     => /\ NotModified
        /\ pc \in {"serveDone", "returned"}
        /\ HeaderSent => NotModifiedHeaders(Committed)
        /\ (Returned /\ ~failed) => HeaderSent
        /\ Body = ""
  /\ pc \in {"serveDone", "type"} =>
       \A etag \in ResourceETags :
         \A r \in {PreconditionsWith(etag)} :
           (/\ pick(r.outgoing, headerCode) # "412"
            /\ \/ TrimString(IfNoneMatchValue) = "*"
               \/ \E e \in Listed(IfNoneMatchValue) : WeakEqual(e, etag))
           => /\ r.done
              /\ NotModifiedHeaders(r.outgoing)
              /\ headerLastModified \notin DOMAIN r.outgoing

C9_Witness ==
  /\ Returned /\ ~failed
  /\ IfNoneMatchValue = "*"
  /\ IfMatchValue = "*"
  /\ HeaderSent
  /\ pick(Committed, headerCode) = "304"
  /\ headerLastModified \in DOMAIN Committed

(***************************************************************************)
(* C10 as stated: when the If-None-Match check does not yield false (the   *)
(* header is absent, or present and true), If-Modified-Since parses and    *)
(* the specified modTime, truncated to the second, is not after it, the    *)
(* outcome is 304.  Read for requests whose If-Match /                     *)
(* If-Unmodified-Since step has not ended in 412.                          *)
(***************************************************************************)
NotNewer ==
  /\ IfModifiedSinceValue # ""
  /\ ParseTime(IfModifiedSinceValue).ok
  /\ ~isZeroTime(modTime)
  /\ Truncate(modTime).ticks <= ParseTime(IfModifiedSinceValue).t.ticks

C10_NotModifiedSince ==
  (/\ Evaluated
   /\ ~PreconditionFailed
   /\ checkIfNoneMatch(outgoing, incoming) # condFalse
   /\ NotNewer)
  => NotModified

(***************************************************************************)
(* C10 as amended: when If-None-Match is absent, If-Modified-Since parses  *)
(* and the specified modTime, truncated to the second, is not after it,    *)
(* the outcome is 304 (provided the If-Match / If-Unmodified-Since step    *)
(* has not failed).                                                        *)
(***************************************************************************)
C10_AbsentIfNoneMatch ==
  (/\ Evaluated
   /\ ~PreconditionFailed
   /\ IfNoneMatchValue = ""
   /\ NotNewer)
  => NotModified /\ pc \in {"serveDone", "returned"}

C10_Witness ==
  /\ Returned /\ ~failed
  /\ IfNoneMatchValue = ""
  /\ IfModifiedSinceValue = "T1 GMT"
  /\ modTime = Time(TicksPerSecond + 1)
  /\ HeaderSent
  /\ pick(Committed, headerCode) = "304"

(***************************************************************************)
(* C11: with Range and If-Range present and the preconditions passed, the  *)
(* Range is honored (206) only if If-Range is a well-formed ETag that      *)
(* strong-matches the resource's ETag, or is no ETag and parses as a time  *)
(* equal to the second to modTime; otherwise the Range header is dropped   *)
(* and the full content is served with 200 and no content-range.           *)
(* ServeContent starts from response metadata without an ETag; the second  *)
(* conjunct states the decision of checkPreconditions for response         *)
(* metadata that holds one.                                                *)
(***************************************************************************)
IfRangeValue == pick(incoming, headerIfRange)

IfRangeAgrees(etag) ==
  \/ WellFormedETag(IfRangeValue) /\ StrongEqual(IfRangeValue, etag)
  \/ /\ ~WellFormedETag(IfRangeValue)
     /\ ParseTime(IfRangeValue).ok
     /\ Unix(ParseTime(IfRangeValue).t) = Unix(modTime)

Passed == Evaluated /\ ~PreconditionFailed /\ ~NotModified

C11_IfRange ==
  /\ (Passed /\ RangeHeader # "" /\ IfRangeValue # "") =>
       /\ HeaderSent /\ pick(Committed, headerCode) = "206"
            => IfRangeAgrees(ResourceETag)
       /\ IfRangeAgrees(ResourceETag) <=> rangeReq = RangeHeader
       /\ ~IfRangeAgrees(ResourceETag) =>
            /\ rangeReq = ""
            /\ ranges = <<>>
            /\ "parseRange" \in calls => pc # "errHeader"
            /\ HeaderSent =>
                 /\ pick(Committed, headerCode) = "200"
                 /\ headerContentRange \notin DOMAIN Committed
            /\ (Returned /\ ~failed) => (HeaderSent /\ Body = Source(size))
  /\ (pc = "type" /\ RangeHeader # "" /\ IfRangeValue # "") =>
       \A etag \in ResourceETags :
         \A r \in {PreconditionsWith(etag)} :
           ~r.done =>
             r.rangeHeader = (IF IfRangeAgrees(etag) THEN RangeHeader ELSE "")

\* If-Range carries the date of modTime and the range is served
C11_Witness ==
  /\ Returned /\ ~failed
  /\ RangeHeader = "bytes=0-0"
  /\ IfRangeValue = "T1 GMT"
  /\ modTime = Time(TicksPerSecond + 1)
  /\ HeaderSent
  /\ pick(Committed, headerCode) = "206"
  /\ Body = "a"

(***************************************************************************)
(* Observations on error responses                                         *)
(***************************************************************************)
\* the data frames on the stream
DataFrames == {i \in 1..Len(stream) : stream[i].kind = "data"}

CommittedCode == pick(Committed, headerCode)

\* the committed headers are those of an error response
ErrorHeaders ==
  /\ {headerCacheControl, headerContentEncoding, headerETag,
      headerLastModified, headerContentLength} \cap DOMAIN Committed = {}
  /\ pick(Committed, headerContentType) = "text/plain; charset=utf-8"
  /\ pick(Committed, headerXContentTypeOptions) = "nosniff"

\* the text an error response of the given code carries
ErrorTextOf(code) ==
  IF code = "416" THEN parseRange(rangeReq, size).err
  ELSE IF code = "500" THEN "seeker can't seek"
  ELSE Body

\* at most one frame follows the headers; it carries the error text, and
\* it is there once ServeContent has returned without error
ErrorBodyFrame ==
  /\ Cardinality(DataFrames) <= 1
  /\ \A i \in DataFrames :
       /\ \E j \in 1..(i - 1) : stream[j].kind = "header"
       /\ stream[i].data = ErrorTextOf(CommittedCode)
       /\ stream[i].data # ""
  /\ (Returned /\ ret = NoError) => Cardinality(DataFrames) = 1

(***************************************************************************)
(* C12 as stated: every response of ServeContent with status 412, 416 or   *)
(* 500 commits headers without cache-control, content-encoding, etag,      *)
(* last-modified and content-length, with content-type                     *)
(* "text/plain; charset=utf-8" and x-content-type-options "nosniff", and   *)
(* is followed by exactly one frame that carries the error text.           *)
(***************************************************************************)
C12_ErrorResponses ==
  (HeaderSent /\ CommittedCode \in {"412", "416", "500"}) =>
    ErrorHeaders /\ ErrorBodyFrame

(***************************************************************************)
(* C12 as amended: every response of ServeContent with status 416 or 500   *)
(* commits such headers and is followed by exactly one frame that carries  *)
(* the error text (for a Range header that does not parse, the parser's    *)
(* error text).                                                            *)
(***************************************************************************)
C12_RangeAndSeekErrors ==
  /\ (HeaderSent /\ CommittedCode \in {"416", "500"}) =>
       ErrorHeaders /\ ErrorBodyFrame
  /\ pc \in {"errHeader", "errBody"} =>
       pick(outgoing, headerCode) \in {"416", "500"}

\* an invalid Range header on a resource with a modification time
C12_Witness ==
  /\ Returned /\ ret = NoError
  /\ ~isZeroTime(modTime)
  /\ HeaderSent
  /\ CommittedCode = "416"
  /\ ErrorHeaders
  /\ Body = ErrInvalidRange

(***************************************************************************)
(* C13: when the precondition evaluation is terminal, ServeContent calls   *)
(* SendHeader exactly once, with code 412 when the If-Match /              *)
(* If-Unmodified-Since step fails and 304 otherwise; it never calls Send,  *)
(* never reads or seeks the content and never parses the Range header.     *)
(***************************************************************************)
Terminal == PreconditionFailed \/ NotModified

FirstStepFails ==
  \/ checkIfMatch(NewMD, incoming) = condFalse
  \/ /\ checkIfMatch(NewMD, incoming) = condNone
     /\ checkIfUnmodifiedSince(incoming, modTime) = condFalse

C13_TerminalOutcome ==
  Terminal =>
    /\ pc \in {"serveDone", "returned"}
    /\ PreconditionFailed <=> FirstStepFails
    /\ calls \subseteq {"SendHeader"}
    /\ headerCalls = (IF Returned THEN 1 ELSE 0)
    /\ pos = 0
    /\ ppc = "idle"
    /\ stream \in {<<>>, <<HeaderEvent(outgoing)>>}
    /\ (Returned /\ ret = NoError) => stream = <<HeaderEvent(outgoing)>>

C13_Witness ==
  /\ Returned /\ ret = NoError
  /\ PreconditionFailed
  /\ RangeHeader # ""
  /\ headerCalls = 1
  /\ calls = {"SendHeader"}
  /\ stream = <<HeaderEvent(outgoing)>>

(***************************************************************************)
(* C14: when modTime is the zero time or the Unix epoch, the outcome of    *)
(* checkPreconditions is the same for every If-Unmodified-Since and        *)
(* If-Modified-Since value (absent included), so that they cause neither   *)
(* 412 nor 304, and no last-modified header is committed.                  *)
(***************************************************************************)
Unspecified(t) == t.zero \/ t.ticks = 0

\* the request at hand with other If-Unmodified-Since and If-Modified-Since
WithDates(ius, ims) ==
  WithHeader(WithHeader(incoming, headerIfUnmodifiedSince, ius),
             headerIfModifiedSince, ims)

C14_UnspecifiedModTime ==
  Unspecified(modTime) =>
    /\ headerLastModified \notin DOMAIN outgoing
    /\ HeaderSent => headerLastModified \notin DOMAIN Committed
    /\ pc \in {"serveDone", "type"} =>
         \A ius \in DateHeaders, ims \in DateHeaders :
           \A r \in {checkPreconditions(setLastModified(NewMD, modTime),
                                        WithDates(ius, ims), modTime)} :
             /\ r.done = (pc = "serveDone")
             /\ r.outgoing = outgoing
             /\ r.rangeHeader = rangeReq

\* a resource at the Unix epoch, asked for with dates that a specified
\* modTime would answer with 304, is served
C14_Witness ==
  /\ Returned /\ ret = NoError
  /\ modTime = unixEpochTime
  /\ IfMatchValue = "" /\ IfNoneMatchValue = ""
  /\ IfModifiedSinceValue = "T1 GMT"
  /\ HeaderSent
  /\ CommittedCode = "200"
  /\ headerLastModified \notin DOMAIN Committed

(***************************************************************************)
(* The grammar of a Range header, as the claims on parseRange state it     *)
(***************************************************************************)
IsDigits(t) == t # "" /\ \A i \in 1..Len(t) : IsDigit(At(t, i))

\* a decimal integer, with an optional sign
IsInt(t) ==
  IsDigits(t) \/ (t # "" /\ At(t, 1) \in {"+", "-"} /\ IsDigits(Tail(t)))

IsNonNegInt(t) ==
  IsDigits(t) \/ (t # "" /\ At(t, 1) = "+" /\ IsDigits(Tail(t)))

IntOf(t) == ParseInt(t).val

\* the non-empty specs of a header that starts with "bytes=", in order
SpecsOf(h) ==
  SelectSeq([i \in 1..Len(Split(SubSeq(h, 7, Len(h)), ",")) |->
               TrimString(Split(SubSeq(h, 7, Len(h)), ",")[i])],
            LAMBDA ra : ra # "")

HasDash(ra) == \E i \in 1..Len(ra) : At(ra, i) = "-"

FirstDash(ra) == CHOOSE i \in 1..Len(ra) :
                   At(ra, i) = "-" /\ \A j \in 1..(i - 1) : At(ra, j) # "-"

StartOf(ra) == TrimString(SubSeq(ra, 1, FirstDash(ra) - 1))

EndOf(ra) == TrimString(SubSeq(ra, FirstDash(ra) + 1, Len(ra)))

\* the start or the suffix length of ra is not a non-negative integer
BadStart(ra) ==
  IF StartOf(ra) = "" THEN ~IsNonNegInt(EndOf(ra)) ELSE ~IsNonNegInt(StartOf(ra))

\* the end of ra is not an integer, or is smaller than its start
BadEnd(ra) ==
  /\ StartOf(ra) # "" /\ IsNonNegInt(StartOf(ra))
  /\ EndOf(ra) # ""
  /\ ~IsInt(EndOf(ra)) \/ IntOf(EndOf(ra)) < IntOf(StartOf(ra))

Parsed == parsePc \in {"again", "done"}

(***************************************************************************)
(* C15 as stated: parseRange fails with ErrInvalidRange for every          *)
(* non-empty header that does not start with "bytes=" or that holds a      *)
(* non-empty spec without "-", with a start or suffix length that is not a *)
(* non-negative integer, with an end that is not an integer or with an end *)
(* smaller than its start, whatever the size and the other specs.          *)
(***************************************************************************)
C15_InvalidRange ==
  (/\ Parsed
   /\ parseS # ""
   /\ \/ ~HasPrefix(parseS, "bytes=")
      \/ \E i \in 1..Len(SpecsOf(parseS)) :
           \E ra \in {SpecsOf(parseS)[i]} :
             ~HasDash(ra) \/ BadStart(ra) \/ BadEnd(ra))
  => parseRet.err = ErrInvalidRange

(***************************************************************************)
(* C15 as amended: the same, except that the end of a spec counts only     *)
(* when its start is below the size: a spec that starts at or beyond the   *)
(* size is dropped before its end is looked at.                            *)
(***************************************************************************)
C15_InvalidRangeBelowSize ==
  (/\ Parsed
   /\ parseS # ""
   /\ \/ ~HasPrefix(parseS, "bytes=")
      \/ \E i \in 1..Len(SpecsOf(parseS)) :
           \E ra \in {SpecsOf(parseS)[i]} :
             \/ ~HasDash(ra)
             \/ BadStart(ra)
             \/ BadEnd(ra) /\ IntOf(StartOf(ra)) < parseSize)
  => parseRet.err = ErrInvalidRange /\ parseRet.ranges = <<>>

\* a spec whose end is below its start, after a spec that resolves
C15_Witness ==
  /\ Parsed
  /\ parseS = "bytes=0-0,2-1"
  /\ parseSize = 3
  /\ parseRet.err = ErrInvalidRange

(***************************************************************************)
(* C16: parseRange returns ErrNoOverlap, an error other than               *)
(* ErrInvalidRange, exactly when the header is otherwise valid, at least   *)
(* one spec was dropped because its start is at or beyond the size, and no *)
(* spec resolved; when another spec resolves, the dropped specs are left   *)
(* out and the parse succeeds with the remaining ranges.  A header is      *)
(* valid when no spec makes parseRange fail with ErrInvalidRange.          *)
(***************************************************************************)
\* ra starts at or beyond the size
Dropped(ra, sz) ==
  /\ HasDash(ra)
  /\ StartOf(ra) # "" /\ IsNonNegInt(StartOf(ra))
  /\ IntOf(StartOf(ra)) >= sz

\* ra does not parse
InvalidSpec(ra, sz) ==
  \/ ~HasDash(ra)
  \/ BadStart(ra)
  \/ BadEnd(ra) /\ IntOf(StartOf(ra)) < sz

Resolves(ra, sz) == ~InvalidSpec(ra, sz) /\ ~Dropped(ra, sz)

ValidHeader(h, sz) ==
  /\ HasPrefix(h, "bytes=")
  /\ \A i \in 1..Len(SpecsOf(h)) : ~InvalidSpec(SpecsOf(h)[i], sz)

\* the specs of h that resolve, in order
Remaining(h, sz) == SelectSeq(SpecsOf(h), LAMBDA ra : Resolves(ra, sz))

C16_NoOverlap ==
  Parsed =>
    /\ ErrNoOverlap # ErrInvalidRange
    /\ parseRet.err = ErrNoOverlap <=>
         /\ ValidHeader(parseS, parseSize)
         /\ \E i \in 1..Len(SpecsOf(parseS)) :
              Dropped(SpecsOf(parseS)[i], parseSize)
         /\ Remaining(parseS, parseSize) = <<>>
    /\ (ValidHeader(parseS, parseSize) /\ Remaining(parseS, parseSize) # <<>>) =>
         /\ parseRet.err = NoError
         /\ Len(parseRet.ranges) = Len(Remaining(parseS, parseSize))
    /\ parseRet.err = ErrNoOverlap => parseRet.ranges = <<>>

\* one spec beyond the size, one that resolves
C16_Witness ==
  /\ Parsed
  /\ parseS = "bytes=3-,0-0"
  /\ parseSize = 3
  /\ parseRet = [ranges |-> <<[start |-> 0, length |-> 1]>>, err |-> NoError]

(***************************************************************************)
(* C17: for every size and every well-formed header parseRange returns the *)
(* resolved ranges in the order of their specs: "-n" is the last           *)
(* min(n, size) bytes, "a-" with a < size runs from a to the end, "a-b"    *)
(* with a < size and b >= a runs from a to min(b, size - 1).  A second     *)
(* call with the same header and size returns the same.                    *)
(***************************************************************************)
ResolvedOf(ra, sz) ==
  IF StartOf(ra) = ""
  THEN [start  |-> sz - Min(IntOf(EndOf(ra)), sz),
        length |-> Min(IntOf(EndOf(ra)), sz)]
  ELSE IF EndOf(ra) = ""
  THEN [start |-> IntOf(StartOf(ra)), length |-> sz - IntOf(StartOf(ra))]
  ELSE [start  |-> IntOf(StartOf(ra)),
        length |-> Min(IntOf(EndOf(ra)), sz - 1) - IntOf(StartOf(ra)) + 1]

RECURSIVE TotalLength(_)
TotalLength(rs) ==
  IF rs = <<>> THEN 0 ELSE Head(rs).length + TotalLength(Tail(rs))

RangeParsed == "parseRange" \in calls /\ pc # "errHeader" /\ pc # "errBody"

C18_SumOfRanges ==
  \A pr \in {parseRange(rangeReq, size)} :
    (RangeParsed /\ pr.err = NoError /\ pr.ranges # <<>>) =>
      IF TotalLength(pr.ranges) > size
      THEN /\ ranges = <<>>
           /\ ppc = "idle"
           /\ HeaderSent =>
                /\ CommittedCode = "200"
                /\ pick(Committed, headerContentLength) = FormatInt(size)
                /\ headerContentRange \notin DOMAIN Committed
           /\ (Returned /\ ~failed) => (HeaderSent /\ Body = Source(size))
      ELSE /\ ranges = pr.ranges
           /\ HeaderSent => CommittedCode = "206"
           /\ (Returned /\ ~failed) => HeaderSent

\* two overlapping ranges of two bytes each on a resource of three bytes
C18_Witness ==
  /\ Returned /\ ~failed
  /\ rangeReq = "bytes=0-1,1-2"
  /\ size = 3
  /\ HeaderSent
  /\ CommittedCode = "200"
  /\ Body = "abc"

(***************************************************************************)
(* Observations on an upload                                               *)
(***************************************************************************)
\* the payloads of the first k frames, concatenated
RECURSIVE Payload(_)
Payload(k) == IF k = 0 THEN "" ELSE Payload(k - 1) \o upFrames[k]

Reading == upPc = "read" /\ upReads > 0

(***************************************************************************)
(* C19: for a reader without size limit, Recv is called only when the      *)
(* leftover buffer is empty, and the bytes the Read calls return are, in   *)
(* order, the payloads of the frames received, none lost, repeated or out  *)
(* of order, up to the first error of Recv, which Read returns unchanged   *)
(* with zero bytes.                                                        *)
(***************************************************************************)
C19_ReadsDeliverFrames ==
  (Reading /\ rdSizeLimit = 0) =>
    /\ upLast.recv <=> upLast.leftover = 0
    /\ upOut \o rdBuf = Payload(upRecvd)
    /\ upLast.n = Len(upLast.data)
    /\ upLast.err \in {NoError, upEnd}
    /\ upLast.err = NoError =>
         upLast.n = Min(upLast.dst,
                        IF upLast.recv THEN Len(upFrames[upRecvd])
                        ELSE upLast.leftover)
    /\ upLast.err # NoError =>
         /\ upLast.recv
         /\ upLast.n = 0
         /\ upRecvd = Len(upFrames)
         /\ upOut = Payload(Len(upFrames))

\* a frame longer than the caller's buffer, read to the end of the stream
C19_Witness ==
  /\ Reading /\ rdSizeLimit = 0
  /\ upFrames = <<"abc", "d">>
  /\ upOut = "abcd"
  /\ upLast.err = EOF
  /\ upReads = 4

(***************************************************************************)
(* C20: for a reader with sizeLimit > 0 the bytes returned never exceed    *)
(* sizeLimit; a Read fails with ErrSizeLimitExceeded, returning zero       *)
(* bytes, exactly when the bytes it would return and the bytes already     *)
(* returned exceed sizeLimit; the first such failure comes at the frame    *)
(* that crosses the limit, no later frame having been received; a stream   *)
(* whose payload is at most sizeLimit never fails so.                      *)
(***************************************************************************)
\* the bytes the last Read had at hand
AtHand ==
  IF upLast.recv THEN Len(upFrames[upRecvd]) ELSE upLast.leftover

RecvFailed == upLast.recv /\ upLast.err = upEnd

C20_SizeLimit ==
  (Reading /\ rdSizeLimit > 0) =>
    /\ Len(upOut) <= rdSizeLimit
    /\ upLast.err = ErrSizeLimitExceeded <=>
         /\ ~RecvFailed
         /\ Min(upLast.dst, AtHand) + (Len(upOut) - upLast.n) > rdSizeLimit
    /\ upLast.err = ErrSizeLimitExceeded => upLast.n = 0 /\ upLast.data = ""
    /\ (upLast.err = ErrSizeLimitExceeded /\ ~upLast.after) =>
         /\ upRecvd >= 1
         /\ Len(Payload(upRecvd)) > rdSizeLimit
         /\ Len(Payload(upRecvd - 1)) <= rdSizeLimit
    /\ Len(Payload(Len(upFrames))) <= rdSizeLimit =>
         upLast.err # ErrSizeLimitExceeded

\* the second of three frames crosses the limit; the third is not received
C20_Witness ==
  /\ Reading
  /\ rdSizeLimit = 3
  /\ upFrames = <<"ab", "cd", "e">>
  /\ upLast.err = ErrSizeLimitExceeded
  /\ ~upLast.after
  /\ upRecvd = 2
  /\ upOut = "ab"

(***************************************************************************)
(* Observations on a downloadServerWriter                                  *)
(***************************************************************************)
\* the payloads of frames, concatenated
RECURSIVE Concat(_)
Concat(frames) ==
  IF frames = <<>> THEN "" ELSE Head(frames) \o Concat(Tail(frames))

Writing == wrPc = "write" /\ wrHist # <<>>

\* the frames the stream holds from the i-th Write call
FramesFrom(i) ==
  SubSeq(wrStream, wrHist[i].before + 1,
         IF i < Len(wrHist) THEN wrHist[i + 1].before ELSE Len(wrStream))

(***************************************************************************)
(* C21: a Write whose Sends all succeed emits ceil(len(data)/chunkSize)    *)
(* frames, each non-empty and of at most chunkSize bytes, whose payloads   *)
(* in order make up data, and returns len(data); the frames of successive  *)
(* Write calls are on the stream in the order of the calls.                *)
(***************************************************************************)
C21_WriteEmitsChunks ==
  Writing =>
    /\ wrHist[1].before = 0
    /\ \A i \in 1..Len(wrHist) :
         /\ FramesFrom(i) = wrHist[i].frames
         /\ wrHist[i].err = NoError =>
              /\ Len(wrHist[i].frames) =
                   (Len(wrHist[i].data) + defaultBufSize - 1) \div defaultBufSize
              /\ \A k \in 1..Len(wrHist[i].frames) :
                   /\ Len(wrHist[i].frames[k]) >= 1
                   /\ Len(wrHist[i].frames[k]) <= defaultBufSize
              /\ Concat(wrHist[i].frames) = wrHist[i].data
              /\ wrHist[i].n = Len(wrHist[i].data)

\* a buffer of two chunks and a byte, then one of a chunk and a byte
C21_Witness ==
  /\ Writing
  /\ Len(wrHist) = 2
  /\ Len(wrHist[1].data) = 2 * defaultBufSize + 1
  /\ Len(wrHist[2].data) = defaultBufSize + 1
  /\ wrHist[1].err = NoError /\ wrHist[2].err = NoError
  /\ Len(wrStream) = 5
  /\ Concat(wrStream) = wrHist[1].data \o wrHist[2].data

(***************************************************************************)
(* C22: a Write in which a Send fails returns that error and, as n, the    *)
(* bytes of the frames sent before it, which are a prefix of data, and     *)
(* sends no further frame.                                                 *)
(***************************************************************************)
C22_WriteFailure ==
  Writing =>
    \A i \in 1..Len(wrHist) :
      wrHist[i].err # NoError =>
        /\ wrHist[i].err = ErrSend
        /\ wrHist[i].n = Len(Concat(FramesFrom(i)))
        /\ wrHist[i].n < Len(wrHist[i].data)
        /\ Concat(FramesFrom(i)) = SubSeq(wrHist[i].data, 1, wrHist[i].n)
        /\ \A k \in 1..Len(FramesFrom(i)) :
             Len(FramesFrom(i)[k]) = defaultBufSize

\* the third Send of a Write fails, and a later Write goes through
C22_Witness ==
  /\ Writing
  /\ Len(wrHist) = 2
  /\ Len(wrHist[1].data) = 2 * defaultBufSize + 1
  /\ wrHist[1].err = ErrSend
  /\ wrHist[1].n = 2 * defaultBufSize
  /\ wrHist[2].err = NoError
  /\ Len(wrHist[2].frames) = 1
  /\ Len(wrStream) = 3

(***************************************************************************)
(* C23: a 200 or 206 response that completes without error has committed   *)
(* accept-ranges "bytes", transfer-encoding "identity" and a               *)
(* content-length equal to the number of body bytes sent: the size for a   *)
(* full response, the length of the range for a single range, the size of  *)
(* the multipart encoding for several ranges.  A response with several     *)
(* ranges completes when none of its calls failed: ServeContent returns    *)
(* io.EOF for it.                                                          *)
(***************************************************************************)
Completed ==
  /\ Returned
  /\ HeaderSent
  /\ CommittedCode \in {"200", "206"}
  /\ \/ ret = NoError
     \/ Len(ranges) > 1 /\ ~failed

\* the bytes the response is to carry
ExpectedLength ==
  CASE Len(ranges) = 0 -> size
    [] Len(ranges) = 1 -> ranges[1].length
    [] OTHER -> rangesMIMESize(ranges, contentType, size, boundary)

C23_LengthHeaders ==
  Completed =>
    /\ pick(Committed, headerAcceptRanges) = "bytes"
    /\ pick(Committed, headerTransferEncoding) = "identity"
    /\ pick(Committed, headerContentLength) = FormatInt(Len(Body))
    /\ Len(Body) = ExpectedLength
    /\ CommittedCode = "200" <=> Len(ranges) = 0

\* the last two bytes of three, asked for as a suffix
C23_Witness ==
  /\ Completed
  /\ ret = NoError
  /\ size = 3
  /\ RangeHeader = "bytes=-2"
  /\ CommittedCode = "206"
  /\ pick(Committed, headerContentLength) = "2"
  /\ Body = "bc"

(***************************************************************************)
(* Observations on the goroutine of the multi-range case                   *)
(***************************************************************************)
MultiRange == Len(ranges) > 1 /\ sendFrom = "pipe"

\* the bytes io.CopyN has taken from the pipe
Consumed == sendSize - remaining

(***************************************************************************)
(* C24: in a multi-range response only the main path calls Send: no frame  *)
(* on the stream was sent by the goroutine, and the body bytes on the      *)
(* stream are bytes the main path has taken from the pipe.                 *)
(***************************************************************************)
C24_OnlyMainSends ==
  MultiRange =>
    /\ \A i \in DataFrames : stream[i].by = "main"
    /\ pc = "copy" => Len(Body) <= Consumed

(***************************************************************************)
(* C25: in a multi-range response, once ServeContent has returned because  *)
(* SendHeader failed, the goroutine puts no further frame on the stream    *)
(* and neither seeks nor reads the content.                                *)
(***************************************************************************)
C25_ProducerStopsAfterReturn ==
  [][(MultiRange /\ ret = ErrSendHeader) =>
       (stream' = stream /\ pos' = pos)]_vars

(***************************************************************************)
(* C26: when CreatePart, Seek or the copy of a range fails with e in the   *)
(* goroutine, it closes the pipe with e and goes to no later range, and    *)
(* ServeContent returns e: not success, and it does not block forever.     *)
(***************************************************************************)
\* the goroutine has ended on a failure, closing the pipe with it
ProducerFailed == ppc = "exit" /\ pipeW \in {ErrSend, ErrSeek, ErrRead}

C26_ProducerError ==
  (ProducerFailed /\ Returned) => ret = pipeW

(***************************************************************************)
(* C26 as it holds: ServeContent returns e when its SendHeader succeeded,  *)
(* and the error of SendHeader when that failed; it returns in either      *)
(* case, and the goroutine sends, seeks and reads nothing after its        *)
(* failure.                                                                *)
(***************************************************************************)
C26_ProducerErrorAfterHeader ==
  /\ []((ProducerFailed /\ Returned) =>
         ret = IF HeaderSent THEN pipeW ELSE ErrSendHeader)
  /\ [][ProducerFailed =>
          (ProducerFailed' /\ pipeW' = pipeW /\ pidx' = pidx /\ pos' = pos
             /\ BodyOf(stream') = Body)]_vars
  /\ (ProducerFailed ~> Returned)

\* the Seek of the second range fails after the headers went out
C26_Witness ==
  /\ ProducerFailed /\ Returned
  /\ HeaderSent
  /\ pipeW = ErrSeek
  /\ ret = ErrSeek
  /\ pidx = 2
  /\ Len(ranges) = 3

(***************************************************************************)
(* C27: the body of a successful multi-range response is one MIME part     *)
(* for each resolved range, in their order, each with the headers          *)
(* Content-Range "bytes start-end/size" and Content-Type and the bytes     *)
(* [start, start+length) of the content, then the closing boundary; the    *)
(* committed content-type is "multipart/byteranges; boundary=<token>"      *)
(* with the token of the body.                                             *)
(***************************************************************************)
MultipartPrefix == "multipart/byteranges; boundary="

\* the token the committed content-type announces
Token == TrimPrefix(pick(Committed, headerContentType), MultipartPrefix)

\* the i-th part and what follows it
RECURSIVE PartsFrom(_)
PartsFrom(i) ==
  IF i > Len(ranges) THEN "\r\n--" \o Token \o "--\r\n"
  ELSE (IF i = 1 THEN "" ELSE "\r\n") \o "--" \o Token \o "\r\n"
         \o "Content-Range: bytes " \o FormatInt(ranges[i].start) \o "-"
         \o FormatInt(ranges[i].start + ranges[i].length - 1) \o "/"
         \o FormatInt(size) \o "\r\n"
         \o "Content-Type: " \o contentType \o "\r\n"
         \o "\r\n"
         \o SubSeq(Source(size), ranges[i].start + 1,
                   ranges[i].start + ranges[i].length)
         \o PartsFrom(i + 1)

C27_MultipartBody ==
  (Completed /\ MultiRange) =>
    /\ HasPrefix(pick(Committed, headerContentType), MultipartPrefix)
    /\ Token # ""
    /\ Body = PartsFrom(1)

\* three parts of one byte each
C27_Witness ==
  /\ Completed /\ MultiRange
  /\ size = 3
  /\ RangeHeader = "bytes=0-0,1-1,2-2"
  /\ Len(ranges) = 3
  /\ ppc = "exit"
  /\ Body = PartsFrom(1)
  /\ Len(Body) > 3 * Len(Token)

(***************************************************************************)
(* C28: every range a successful parseRange returns has start >= 0,        *)
(* length >= 0 and start + length <= size.                                 *)
(***************************************************************************)
C28_RangesWithinSize ==
  (Parsed /\ parseRet.err = NoError) =>
    \A i \in 1..Len(parseRet.ranges) :
      /\ parseRet.ranges[i].start >= 0
      /\ parseRet.ranges[i].length >= 0
      /\ parseRet.ranges[i].start + parseRet.ranges[i].length <= parseSize

\* a suffix longer than the resource and an end beyond it
C28_Witness ==
  /\ Parsed /\ parseRet.err = NoError
  /\ parseSize = 3
  /\ parseS = "bytes=-9,2-9"
  /\ parseRet.ranges = <<[start |-> 0, length |-> 3], [start |-> 2, length |-> 1]>>

(***************************************************************************)
(* C29: once a Read of a reader with a size limit has failed with          *)
(* ErrSizeLimitExceeded, the Read after it fails with                      *)
(* ErrSizeLimitExceeded too and returns no bytes, and so does every later  *)
(* one: no later frame reaches the caller.                                 *)
(***************************************************************************)
C29_StickyFailure ==
  [][(Reading /\ rdSizeLimit > 0 /\ upLast.err = ErrSizeLimitExceeded) =>
       /\ upLast'.err = ErrSizeLimitExceeded
       /\ upLast'.n = 0
       /\ upOut' = upOut]_vars

(***************************************************************************)
(* Observations on an httpBodyDecoder                                      *)
(***************************************************************************)
\* Decode calls, all for HttpBody messages, on a body that ends
Decoding == decPc = "decode" /\ decCalls > 0 /\ ~decOther /\ decEnd = EOF

(***************************************************************************)
(* C30: the payloads of the successful Decode calls on a body of L bytes,  *)
(* in order, make up the body; every payload but the last has              *)
(* defaultBufSize bytes; the Decode that meets the end of the input        *)
(* succeeds and sets decoder.eof; every Decode after it returns io.EOF     *)
(* without reading the body.                                               *)
(***************************************************************************)
C30_DecodeChunks ==
  Decoding =>
    /\ Concat(decOut) = SubSeq(decBody, 1, decPos)
    /\ \A i \in 1..(Len(decOut) - 1) : Len(decOut[i]) = defaultBufSize
    /\ Len(decOut) >= 1 => Len(decOut[Len(decOut)]) <= defaultBufSize
    /\ (decLast.read /\ decLast.n < defaultBufSize) =>
         /\ decLast.err = NoError
         /\ decEof
         /\ decLast.data = decOut[Len(decOut)]
    /\ decEof => Concat(decOut) = decBody
    /\ decLast.eof <=> decLast.err = EOF
    /\ decLast.eof => ~decLast.read /\ decLast.n = 0 /\ decEof
    /\ decLast.err \in {NoError, EOF}

\* two full buffers, the end met with no byte left, and io.EOF twice
C30_Witness ==
  /\ Decoding
  /\ Len(decBody) = 2 * defaultBufSize
  /\ decCalls = 5
  /\ Len(decOut) = 3
  /\ decOut[3] = ""
  /\ decLast.err = EOF
  /\ decEof

====
